---- MODULE Spec2Model ----
(***************************************************************************)
(* Model of the migration engine of context-DB (src/src/engine.py), its    *)
(* database adapters (src/src/adapters.py) and the tools of the server     *)
(* that call the engine (src/src/server.py).                               *)
(*                                                                         *)
(* Text is modelled as a sequence of character codes (ASCII), so that the  *)
(* lexicographic order Python's sorted() and SQL's ORDER BY on a TEXT      *)
(* column use, the formatting of a version number and its parsing are the  *)
(* operations the code performs.                                           *)
(***************************************************************************)
EXTENDS Integers, Sequences, FiniteSets, TLC

VARIABLES
    adapter,     \* which DatabaseAdapter the engine was built with
    upFiles,     \* migrations directory: stem -> content of {stem}.up.sql
    downFiles,   \* migrations directory: stem -> content of {stem}.down.sql
    ledger,      \* rows of the schema_migrations table (committed)
    schema,      \* objects committed in the target database
    last,        \* the last call and what it returned
    created,     \* history: how many migrations have been authored so far
    appliedOk,   \* history: versions applied with success, not rolled back since
    snap,        \* history: the ledger and status before the last successful apply
    connects,    \* how many times the last call called db.connect()
    runtime,     \* how the interpreter reclaims an object nobody refers to
    calls        \* the calls under way side by side, one of each caller

vars == <<adapter, upFiles, downFiles, ledger, schema, last, created,
          appliedOk, snap, connects, runtime, calls>>

(* ------------------------------ bounds -------------------------------- *)

\* at most this many migrations are authored in one behaviour
MaxCreates == 2

(* ------------------------------- text --------------------------------- *)

\* "_" ; the separator of version and name in a file name
Underscore == <<95>>
\* ".up.sql"
UpSuffix == <<46, 117, 112, 46, 115, 113, 108>>
\* Python's None
None == <<-1>>

RECURSIVE LexLess(_, _)
\* s < t for two strings, as Python and a binary TEXT collation compare them
LexLess(s, t) ==
    IF t = <<>> THEN FALSE
    ELSE IF s = <<>> THEN TRUE
    ELSE IF Head(s) # Head(t) THEN Head(s) < Head(t)
    ELSE LexLess(Tail(s), Tail(t))

\* str.lower() on one character
LowerChar(c) == IF c \in 65..90 THEN c + 32 ELSE c

\* name.lower().replace(" ", "_").replace("-", "_")
SafeName(name) ==
    [i \in 1..Len(name) |->
        LET c == LowerChar(name[i])
        IN IF c = 32 \/ c = 45 THEN 95 ELSE c]

RECURSIVE DecDigits(_)
\* the decimal digits of a natural number
DecDigits(n) ==
    IF n < 10 THEN <<48 + n>>
    ELSE Append(DecDigits(n \div 10), 48 + (n % 10))

RECURSIVE ZeroPad(_, _)
ZeroPad(s, w) == IF Len(s) >= w THEN s ELSE ZeroPad(<<48>> \o s, w)

\* mutant of FormatVersion: the number is not padded
FormatVersionUnpadded(n) == DecDigits(n)

\* f"{n:03d}"
FormatVersion(n) == ZeroPad(DecDigits(n), 3)

RECURSIVE ParseInt(_)
\* int(version) for a string of digits
ParseInt(s) ==
    IF s = <<>> THEN 0
    ELSE 10 * ParseInt(SubSeq(s, 1, Len(s) - 1)) + (s[Len(s)] - 48)

\* index of the first "_" of s, 0 when there is none
FirstUnderscore(s) ==
    IF \E i \in 1..Len(s) : s[i] = 95
    THEN CHOOSE i \in 1..Len(s) : s[i] = 95 /\ \A j \in 1..(i - 1) : s[j] # 95
    ELSE 0

\* version_name.split("_", 1)[0]
VersionOf(stem) ==
    IF FirstUnderscore(stem) = 0 THEN stem
    ELSE SubSeq(stem, 1, FirstUnderscore(stem) - 1)

\* parts[1] if len(parts) > 1 else ""
NameOf(stem) ==
    IF FirstUnderscore(stem) = 0 THEN <<>>
    ELSE SubSeq(stem, FirstUnderscore(stem) + 1, Len(stem))

\* f"{version}_{safe_name}"
StemOf(version, safe) == version \o Underscore \o safe

\* the file name glob returns for a stem
FileName(stem) == stem \o UpSuffix

(* --------------------------- scripts, hashes --------------------------- *)

\* A script is a sequence of statements; a statement creates or drops one
\* object of the target schema, or is rejected by the database ("bad").
Create(t) == [k |-> "create", t |-> t]
Drop(t) == [k |-> "drop", t |-> t]
Bad == [k |-> "bad", t |-> "-"]

\* the SQL texts an editor of an up-file leaves in it
EditScripts == { <<Create("t1")>>, <<Create("t2")>> }

\* the descriptions callers give: "add users", "B-c"
AddUsers == <<97, 100, 100, 32, 117, 115, 101, 114, 115>>
BDashC == <<66, 45, 99>>

\* the (name, up_sql, down_sql) callers pass to create_migration; a
\* down_sql of "" asks for no down-file
Authored ==
    { <<AddUsers, <<Create("t1")>>, <<Drop("t1")>>>>,
      <<BDashC, <<Create("t2")>>, <<>>>>,
      <<AddUsers, <<Create("t3"), Bad>>, <<Drop("t1")>>>> }

\* the characters of the SQL texts, as codes
Newline == <<10>>
\* "..."
Ellipsis == <<46, 46, 46>>

\* a comment of n characters in a script: "--xxx...": it runs and does nothing
Filler(n) == [k |-> "filler", t |-> "-", n |-> n]

\* the names of the tables the scripts speak of
TableText(t) ==
    CASE t = "t0" -> <<116, 48>>
      [] t = "t1" -> <<116, 49>>
      [] t = "t2" -> <<116, 50>>
      [] t = "t3" -> <<116, 51>>
      [] OTHER -> <<116>>

\* the characters of one statement: "CREATE TABLE t (id INTEGER);",
\* "DROP TABLE t;", "BAD;", or the comment
StatementText(st) ==
    CASE st.k = "create" -> <<67, 82, 69, 65, 84, 69, 32, 84, 65, 66, 76, 69, 32>> \o TableText(st.t) \o <<32, 40, 105, 100, 32, 73, 78, 84, 69, 71, 69, 82, 41, 59>>
      [] st.k = "drop" -> <<68, 82, 79, 80, 32, 84, 65, 66, 76, 69, 32>> \o TableText(st.t) \o <<59>>
      [] st.k = "filler" -> [i \in 1..st.n |-> IF i <= 2 THEN 45 ELSE 120]
      [] OTHER -> <<66, 65, 68, 59>>

RECURSIVE SqlText(_)
\* the characters of up_sql or down_sql: the statements, one on each line
SqlText(script) ==
    IF script = <<>> THEN <<>>
    ELSE IF Len(script) = 1 THEN StatementText(Head(script))
    ELSE StatementText(Head(script)) \o Newline \o SqlText(Tail(script))

\* datetime.now().isoformat(), of the one clock reading the model has
CreatedAt == <<50, 48, 50, 52, 45, 48, 49, 45, 48, 49, 84, 48, 48, 58, 48, 48, 58, 48, 48>>

\* the comment lines create_migration writes above the SQL; a file written by
\* hand has none
HeaderText(hdr) ==
    IF hdr = <<>> THEN <<>>
    ELSE IF hdr[1] = "Migration"
       THEN <<45, 45, 32, 77, 105, 103, 114, 97, 116, 105, 111, 110, 58, 32>> \o hdr[2] \o Newline
            \o <<45, 45, 32, 67, 114, 101, 97, 116, 101, 100, 58, 32>> \o CreatedAt \o Newline
            \o <<45, 45, 32, 68, 101, 115, 99, 114, 105, 112, 116, 105, 111, 110, 58, 32>> \o hdr[3] \o Newline \o Newline
    ELSE <<45, 45, 32, 82, 111, 108, 108, 98, 97, 99, 107, 58, 32>> \o hdr[2] \o Newline
         \o <<45, 45, 32, 67, 114, 101, 97, 116, 101, 100, 58, 32>> \o CreatedAt \o Newline \o Newline

\* f.read(): the characters of a migration file
Text(content) ==
    HeaderText(content.hdr) \o SqlText(content.sql) \o Newline

\* the length of the previews of the dry runs
PreviewLimit == 500

\* mutant of Preview: a cut script carries no ellipsis
PreviewWithoutEllipsis(text) ==
    SubSeq(text, 1, IF Len(text) > PreviewLimit THEN PreviewLimit ELSE Len(text))

\* sql_script[:500] + ("..." if len(sql_script) > 500 else "")
Preview(text) ==
    SubSeq(text, 1, IF Len(text) > PreviewLimit THEN PreviewLimit ELSE Len(text))
        \o (IF Len(text) > PreviewLimit THEN Ellipsis ELSE <<>>)

\* hashlib.sha256(content.encode()).hexdigest()[:16], taken as collision free:
\* the digest is determined by the content and by nothing else
CalculateChecksum(content) == <<"sha256", content>>

(* ------------------------------ catalog ------------------------------- *)

RECURSIVE SortedStems(_)
\* sorted(files): the stems in the order of their file names
SortedStems(S) ==
    IF S = {} THEN <<>>
    ELSE LET m == CHOOSE x \in S :
                     \A y \in S : ~ LexLess(FileName(y), FileName(x))
         IN <<m>> \o SortedStems(S \ {m})

\* mutant of CatalogEntry: the checksum is taken of the path and the content
CatalogEntryHashesPath(files, stem) ==
    [ version      |-> VersionOf(stem),
      name         |-> NameOf(stem),
      full_version |-> stem,
      checksum     |-> CalculateChecksum(<<stem, files[stem]>>),
      path         |-> stem ]

\* one entry of the list get_available_migrations returns
CatalogEntry(files, stem) ==
    [ version      |-> VersionOf(stem),
      name         |-> NameOf(stem),
      full_version |-> stem,
      checksum     |-> CalculateChecksum(files[stem]),
      path         |-> stem ]

\* MigrationEngine.get_available_migrations
GetAvailableMigrations(files) ==
    LET stems == SortedStems(DOMAIN files)
    IN [i \in 1..Len(stems) |-> CatalogEntry(files, stems[i])]

\* the versions of a list of entries or rows: {m["version"] for m in ...}
VersionsOf(list) == { list[i].version : i \in 1..Len(list) }

\* {m["version"]: m for m in list}[version]: the last entry wins
EntryFor(list, version) ==
    LET i == CHOOSE j \in 1..Len(list) :
                 /\ list[j].version = version
                 /\ \A k \in (j + 1)..Len(list) : list[k].version # version
    IN list[i]

(* ------------------------------- ledger ------------------------------- *)

RECURSIVE SortedRows(_)
\* SELECT ... FROM schema_migrations ORDER BY version ASC (version is TEXT)
SortedRows(rows) ==
    IF rows = {} THEN <<>>
    ELSE LET m == CHOOSE x \in rows :
                     \A y \in rows : ~ LexLess(y.version, x.version)
         IN <<m>> \o SortedRows(rows \ {m})

\* MigrationEngine.get_applied_migrations
GetAppliedMigrations(rows) == SortedRows(rows)

\* mutant of LedgerInsert: version is no key of the table
LedgerInsertWithoutKey(rows, row) ==
    [ok |-> TRUE, rows |-> rows \cup {row}]

\* INSERT INTO schema_migrations: version is the PRIMARY KEY
LedgerInsert(rows, row) ==
    IF \E r \in rows : r.version = row.version
    THEN [ok |-> FALSE, rows |-> rows]
    ELSE [ok |-> TRUE, rows |-> rows \cup {row}]

\* mutant of LedgerDelete: the WHERE clause is lost
LedgerDeleteAll(rows, version) == {}

\* DELETE FROM schema_migrations WHERE version = ?
LedgerDelete(rows, version) == { r \in rows : r.version # version }

(* ------------------------------- status ------------------------------- *)

\* mutant of DriftOf: the recorded and the current checksum change places
DriftOfSwapped(applied, applied_list) ==
    LET Mismatch(m) ==
            /\ m.version \in VersionsOf(applied_list)
            /\ m.checksum # EntryFor(applied_list, m.version).checksum
        drifted == SelectSeq(applied, Mismatch)
    IN [i \in 1..Len(drifted) |->
          [ version  |-> drifted[i].version,
            expected |-> drifted[i].checksum,
            actual   |-> EntryFor(applied_list, drifted[i].version).checksum ]]

\* the drift entries of get_status, one per applied entry whose checksum
\* differs from the one the ledger recorded
DriftOf(applied, applied_list) ==
    LET Mismatch(m) ==
            /\ m.version \in VersionsOf(applied_list)
            /\ m.checksum # EntryFor(applied_list, m.version).checksum
        drifted == SelectSeq(applied, Mismatch)
    IN [i \in 1..Len(drifted) |->
          [ version  |-> drifted[i].version,
            expected |-> EntryFor(applied_list, drifted[i].version).checksum,
            actual   |-> drifted[i].checksum ]]

\* applied_list[-1]["version"] if applied_list else None
CurrentVersion(applied_list) ==
    IF Len(applied_list) = 0 THEN None
    ELSE applied_list[Len(applied_list)].version

\* mutant of GetStatus: an applied entry stays in the pending list
GetStatusPendingIsCatalog(files, rows) ==
    LET applied_list == GetAppliedMigrations(rows)
        applied_versions == VersionsOf(applied_list)
        available == GetAvailableMigrations(files)
        IsApplied(m) == m.version \in applied_versions
        applied == SelectSeq(available, IsApplied)
    IN [ pending         |-> available,
         applied         |-> applied,
         drift_detected  |-> DriftOf(applied, applied_list),
         current_version |-> CurrentVersion(applied_list) ]

\* MigrationEngine.get_status
GetStatus(files, rows) ==
    LET applied_list == GetAppliedMigrations(rows)
        applied_versions == VersionsOf(applied_list)
        available == GetAvailableMigrations(files)
        IsPending(m) == m.version \notin applied_versions
        IsApplied(m) == m.version \in applied_versions
        applied == SelectSeq(available, IsApplied)
    IN [ pending         |-> SelectSeq(available, IsPending),
         applied         |-> applied,
         drift_detected  |-> DriftOf(applied, applied_list),
         current_version |-> CurrentVersion(applied_list) ]

(* ------------------------------ adapters ------------------------------ *)

Adapters == {"sqlite", "postgres", "mysql"}

\* where a database step of one call fails with a driver error:
\* reading the ledger, connecting, running the script, writing the ledger
\* row, committing
Faults == {"none", "read", "connect", "script", "write", "commit"}

RECURSIVE RunStatements(_, _)
\* the statements of a script, one after the other, until one is rejected
RunStatements(script, sch) ==
    IF script = <<>> THEN [ok |-> TRUE, schema |-> sch]
    ELSE LET st == Head(script)
         IN IF st.k = "create" /\ st.t \notin sch
               THEN RunStatements(Tail(script), sch \cup {st.t})
            ELSE IF st.k = "drop" /\ st.t \in sch
               THEN RunStatements(Tail(script), sch \ {st.t})
            ELSE IF st.k = "filler"
               THEN RunStatements(Tail(script), sch)
            ELSE [ok |-> FALSE, schema |-> sch]

\* DatabaseAdapter.execute_script: what the script did when the call
\* returns or raises. sqlite3's executescript and MySQL's DDL commit each
\* statement as it completes; psycopg2 runs the script inside the
\* connection's open transaction.
ExecuteScript(ad, script, sch, fault) ==
    IF fault = "script" THEN [ok |-> FALSE, schema |-> sch]
    ELSE RunStatements(script, sch)

\* the schema left behind by a "with connect() as conn" block that raised
\* after the script ran: the with block rolls the open transaction back
AfterRollback(ad, before, after) ==
    IF ad = "postgres" THEN before ELSE after

(* ------------------- MySQLAdapter.execute_script ---------------------- *)

\* at most this many ';'-separated segments make up a script text
MaxSegments == 3

\* ";"
Semicolon == 59

\* the characters str.strip() removes
Whitespace == {9, 10, 11, 12, 13, 28, 29, 30, 31, 32}

RECURSIVE Split(_, _)
\* text.split(c) for a character c
Split(text, c) ==
    LET at == { i \in 1..Len(text) : text[i] = c }
        first == CHOOSE i \in at : \A j \in at : i <= j
    IN IF at = {} THEN <<text>>
       ELSE <<SubSeq(text, 1, first - 1)>>
                \o Split(SubSeq(text, first + 1, Len(text)), c)

\* text.strip()
Strip(text) ==
    LET inked == { i \in 1..Len(text) : text[i] \notin Whitespace }
        lo == CHOOSE i \in inked : \A j \in inked : i <= j
        hi == CHOOSE i \in inked : \A j \in inked : j <= i
    IN IF inked = {} THEN <<>> ELSE SubSeq(text, lo, hi)

\* mutant of MySQLStatements: the pieces are neither trimmed nor dropped
MySQLStatementsAsSplit(script) ==
    Split(script, Semicolon)

\* statements = [s.strip() for s in script.split(";") if s.strip()]
MySQLStatements(script) ==
    LET pieces == Split(script, Semicolon)
        NotEmpty(piece) == Strip(piece) # <<>>
        kept == SelectSeq(pieces, NotEmpty)
    IN [i \in 1..Len(kept) |-> Strip(kept[i])]

\* what the server makes of the text of one statement: the CREATE TABLE and
\* DROP TABLE of the scripts, a SELECT that changes nothing, and a syntax
\* error for every other text
Meaning(statement) ==
    IF \E t \in {"t0", "t1", "t2", "t3"} :
           statement \o <<Semicolon>> = StatementText(Create(t))
       THEN Create(CHOOSE t \in {"t0", "t1", "t2", "t3"} :
                       statement \o <<Semicolon>> = StatementText(Create(t)))
    ELSE IF \E t \in {"t0", "t1", "t2", "t3"} :
           statement \o <<Semicolon>> = StatementText(Drop(t))
       THEN Drop(CHOOSE t \in {"t0", "t1", "t2", "t3"} :
                     statement \o <<Semicolon>> = StatementText(Drop(t)))
    ELSE IF statement = <<83, 69, 76, 69, 67, 84, 32, 49>>
       THEN Filler(Len(statement))
    ELSE Bad

RECURSIVE ExecuteEach(_, _, _)
\* for statement in statements: cursor.execute(statement). The loop ends at
\* the statement that raises; what ran before it stays done.
ExecuteEach(statements, sch, executed) ==
    IF statements = <<>>
       THEN [raised |-> FALSE, schema |-> sch, executed |-> executed]
    ELSE LET ran == RunStatements(<<Meaning(Head(statements))>>, sch)
         IN IF ~ ran.ok
               THEN [ raised |-> TRUE, schema |-> sch,
                      executed |-> Append(executed, Head(statements)) ]
            ELSE ExecuteEach(Tail(statements), ran.schema,
                             Append(executed, Head(statements)))

\* MySQLAdapter.execute_script(cursor, script)
MySQLExecuteScript(script, sch) ==
    ExecuteEach(MySQLStatements(script), sch, <<>>)

\* the segments script texts are made of: " CREATE TABLE t1 (id INTEGER)\n",
\* "DROP TABLE t1", "", " \n", "SELECT 1", and the two halves of
\* "SELECT 'a;b'"
Segments ==
    { <<32, 67, 82, 69, 65, 84, 69, 32, 84, 65, 66, 76, 69, 32, 116, 49, 32, 40, 105, 100, 32, 73, 78, 84, 69, 71, 69, 82, 41, 10>>, <<68, 82, 79, 80, 32, 84, 65, 66, 76, 69, 32, 116, 49>>, <<>>, <<32, 10>>, <<83, 69, 76, 69, 67, 84, 32, 49>>, <<83, 69, 76, 69, 67, 84, 32, 39, 97>>, <<98, 39>> }

RECURSIVE Join(_, _)
\* c.join(pieces)
Join(pieces, c) ==
    IF Len(pieces) = 0 THEN <<>>
    ELSE IF Len(pieces) = 1 THEN pieces[1]
    ELSE pieces[1] \o <<c>> \o Join(Tail(pieces), c)

\* the script texts: one to MaxSegments segments with a ";" between them
ScriptTexts ==
    { Join(pieces, Semicolon) :
        pieces \in UNION { [1..n -> Segments] : n \in 1..MaxSegments } }

(* ----------------------------- the engine ----------------------------- *)

\* what a call leaves in "last" when it returns ret
Returned(op, version, dry_run, ret, ran) ==
    [ op |-> op, version |-> version, dry_run |-> dry_run, raised |-> FALSE,
      ret |-> ret, scriptRan |-> ran ]

\* what a call leaves in "last" when an exception reaches its caller
Raised(op, version, dry_run, ran) ==
    [ op |-> op, version |-> version, dry_run |-> dry_run, raised |-> TRUE,
      ret |-> [exception |-> "driver error"], scriptRan |-> ran ]

\* the outcome of a call that commits nothing to the ledger
Outcome(rows, sch, outcome) ==
    [ ledger |-> rows, schema |-> sch, last |-> outcome,
      applied |-> {}, rolled |-> {}, connects |-> 0 ]

\* the outcome of a call that, on its way to out, entered one more
\* "with self.db.connect() as conn" block
Connecting(out) == [out EXCEPT !.connects = @ + 1]

\* applied_at DEFAULT CURRENT_TIMESTAMP. A timestamp is kept as its rank
\* among the timestamps of the ledger: the calls read only their order. The
\* row of a new apply is later than every row there is.
AppliedAt(rows) == Cardinality(rows) + 1

\* the ranks of the timestamps once rows have gone
Ranked(rows) ==
    { [r EXCEPT !.applied_at =
          Cardinality({ q \in rows : q.applied_at <= r.applied_at })] :
      r \in rows }

\* mutant of ApplyExecute: the row written before a failed commit stays
ApplyExecuteRowOutlivesCommit(ad, rows, sch, migration, script, fault, ms) ==
    LET version == migration.version
        failure == [success |-> FALSE, version |-> version,
                    error |-> "execution failure"]
        ran == ExecuteScript(ad, script, sch, fault)
        row == [ version |-> version, name |-> migration.name,
                 checksum |-> migration.checksum,
                 applied_at |-> AppliedAt(rows),
                 execution_time_ms |-> ms ]
        ins == LedgerInsert(rows, row)
    IN Connecting(
       IF fault = "connect"
          THEN Outcome(rows, sch,
                       Returned("apply", version, FALSE, failure, FALSE))
       ELSE IF ~ ran.ok \/ fault = "write" \/ ~ ins.ok
          THEN Outcome(rows, AfterRollback(ad, sch, ran.schema),
                       Returned("apply", version, FALSE, failure, TRUE))
       ELSE IF fault = "commit"
          THEN Outcome(ins.rows, ran.schema,
                       Returned("apply", version, FALSE, failure, TRUE))
       ELSE [ ledger |-> ins.rows, schema |-> ran.schema,
              last |-> Returned("apply", version, FALSE,
                           [success |-> TRUE, version |-> version,
                            name |-> migration.name,
                            execution_time_ms |-> ms], TRUE),
              applied |-> {version}, rolled |-> {}, connects |-> 0 ])

\* the try block of apply_migration: script, ledger row, commit
ApplyExecute(ad, rows, sch, migration, script, fault, ms) ==
    LET version == migration.version
        failure == [success |-> FALSE, version |-> version,
                    error |-> "execution failure"]
        ran == ExecuteScript(ad, script, sch, fault)
        row == [ version |-> version, name |-> migration.name,
                 checksum |-> migration.checksum,
                 applied_at |-> AppliedAt(rows),
                 execution_time_ms |-> ms ]
        ins == LedgerInsert(rows, row)
    IN Connecting(
       IF fault = "connect"
          THEN Outcome(rows, sch,
                       Returned("apply", version, FALSE, failure, FALSE))
       ELSE IF ~ ran.ok \/ fault = "write" \/ ~ ins.ok \/ fault = "commit"
          THEN Outcome(rows, AfterRollback(ad, sch, ran.schema),
                       Returned("apply", version, FALSE, failure, TRUE))
       ELSE [ ledger |-> ins.rows, schema |-> ran.schema,
              last |-> Returned("apply", version, FALSE,
                           [success |-> TRUE, version |-> version,
                            name |-> migration.name,
                            execution_time_ms |-> ms], TRUE),
              applied |-> {version}, rolled |-> {}, connects |-> 0 ])

\* mutant of ApplyMigration: the dry run is answered before the ledger is
\* asked whether the version is applied
ApplyMigrationDryRunFirst(ad, files, rows, sch, version, dry_run, fault, ms) ==
    LET available == GetAvailableMigrations(files)
        migration == EntryFor(available, version)
    IN IF version \notin VersionsOf(available)
          THEN Outcome(rows, sch,
                   Returned("apply", version, dry_run,
                       [success |-> FALSE, error |-> "not found"], FALSE))
       ELSE IF dry_run
          THEN Outcome(rows, sch,
                   Returned("apply", version, dry_run,
                       [success |-> TRUE, dry_run |-> TRUE, version |-> version,
                        name |-> migration.name,
                        sql_preview |->
                            Preview(Text(files[migration.path]))], FALSE))
       ELSE Connecting(
          IF fault = "read"
          THEN Outcome(rows, sch, Raised("apply", version, dry_run, FALSE))
       ELSE IF version \in VersionsOf(GetAppliedMigrations(rows))
          THEN Outcome(rows, sch,
                   Returned("apply", version, dry_run,
                       [success |-> FALSE, error |-> "already applied"], FALSE))
       ELSE ApplyExecute(ad, rows, sch, migration,
                         files[migration.path].sql, fault, ms))

\* mutant of ApplyMigration: dry_run is not looked at before the script runs
ApplyMigrationIgnoresDryRun(ad, files, rows, sch, version, dry_run, fault, ms) ==
    LET available == GetAvailableMigrations(files)
        migration == EntryFor(available, version)
        out == ApplyExecute(ad, rows, sch, migration,
                            files[migration.path].sql, fault, ms)
    IN IF version \notin VersionsOf(available)
          THEN Outcome(rows, sch,
                   Returned("apply", version, dry_run,
                       [success |-> FALSE, error |-> "not found"], FALSE))
       ELSE Connecting(
          IF fault = "read"
          THEN Outcome(rows, sch, Raised("apply", version, dry_run, FALSE))
       ELSE IF version \in VersionsOf(GetAppliedMigrations(rows))
          THEN Outcome(rows, sch,
                   Returned("apply", version, dry_run,
                       [success |-> FALSE, error |-> "already applied"], FALSE))
       ELSE [out EXCEPT !.last.dry_run = dry_run])

\* mutant of ApplyMigration: the ledger is asked before the catalog
ApplyMigrationLedgerFirst(ad, files, rows, sch, version, dry_run, fault, ms) ==
    LET available == GetAvailableMigrations(files)
        migration == EntryFor(available, version)
    IN Connecting(
       IF fault = "read"
          THEN Outcome(rows, sch, Raised("apply", version, dry_run, FALSE))
       ELSE IF version \in VersionsOf(GetAppliedMigrations(rows))
          THEN Outcome(rows, sch,
                   Returned("apply", version, dry_run,
                       [success |-> FALSE, error |-> "already applied"], FALSE))
       ELSE IF version \notin VersionsOf(available)
          THEN Outcome(rows, sch,
                   Returned("apply", version, dry_run,
                       [success |-> FALSE, error |-> "not found"], FALSE))
       ELSE IF dry_run
          THEN Outcome(rows, sch,
                   Returned("apply", version, dry_run,
                       [success |-> TRUE, dry_run |-> TRUE, version |-> version,
                        name |-> migration.name,
                        sql_preview |->
                            Preview(Text(files[migration.path]))], FALSE))
       ELSE ApplyExecute(ad, rows, sch, migration,
                         files[migration.path].sql, fault, ms))

\* MigrationEngine.apply_migration
ApplyMigration(ad, files, rows, sch, version, dry_run, fault, ms) ==
    LET available == GetAvailableMigrations(files)
        migration == EntryFor(available, version)
    IN IF version \notin VersionsOf(available)
          THEN Outcome(rows, sch,
                   Returned("apply", version, dry_run,
                       [success |-> FALSE, error |-> "not found"], FALSE))
       ELSE Connecting(
          IF fault = "read"
          THEN Outcome(rows, sch, Raised("apply", version, dry_run, FALSE))
       ELSE IF version \in VersionsOf(GetAppliedMigrations(rows))
          THEN Outcome(rows, sch,
                   Returned("apply", version, dry_run,
                       [success |-> FALSE, error |-> "already applied"], FALSE))
       ELSE IF dry_run
          THEN Outcome(rows, sch,
                   Returned("apply", version, dry_run,
                       [success |-> TRUE, dry_run |-> TRUE, version |-> version,
                        name |-> migration.name,
                        sql_preview |->
                            Preview(Text(files[migration.path]))], FALSE))
       ELSE ApplyExecute(ad, rows, sch, migration,
                         files[migration.path].sql, fault, ms))

\* mutant of RollbackExecute: the DELETE of the ledger row is missing
RollbackExecuteKeepsRow(ad, rows, sch, version, script, fault) ==
    LET failure == [success |-> FALSE, version |-> version,
                    error |-> "execution failure"]
        ran == ExecuteScript(ad, script, sch, fault)
    IN Connecting(
       IF fault = "connect"
          THEN Outcome(rows, sch,
                       Returned("rollback", version, FALSE, failure, FALSE))
       ELSE IF ~ ran.ok \/ fault = "write" \/ fault = "commit"
          THEN Outcome(rows, AfterRollback(ad, sch, ran.schema),
                       Returned("rollback", version, FALSE, failure, TRUE))
       ELSE [ ledger |-> rows, schema |-> ran.schema,
              last |-> Returned("rollback", version, FALSE,
                           [success |-> TRUE, version |-> version,
                            message |-> "rolled back"], TRUE),
              applied |-> {}, rolled |-> {version},
              connects |-> 0 ])

\* mutant of RollbackExecute: the row is deleted before the down-script runs,
\* in a transaction of its own
RollbackExecuteDeletesFirst(ad, rows, sch, version, script, fault) ==
    LET failure == [success |-> FALSE, version |-> version,
                    error |-> "execution failure"]
        ran == ExecuteScript(ad, script, sch, fault)
    IN Connecting(
       IF fault = "connect"
          THEN Outcome(rows, sch,
                       Returned("rollback", version, FALSE, failure, FALSE))
       ELSE IF ~ ran.ok \/ fault = "write" \/ fault = "commit"
          THEN Outcome(Ranked(LedgerDelete(rows, version)),
                       AfterRollback(ad, sch, ran.schema),
                       Returned("rollback", version, FALSE, failure, TRUE))
       ELSE [ ledger |-> Ranked(LedgerDelete(rows, version)),
              schema |-> ran.schema,
              last |-> Returned("rollback", version, FALSE,
                           [success |-> TRUE, version |-> version,
                            message |-> "rolled back"], TRUE),
              applied |-> {}, rolled |-> {version},
              connects |-> 0 ])

\* the try block of rollback_migration: script, delete of the row, commit
RollbackExecute(ad, rows, sch, version, script, fault) ==
    LET failure == [success |-> FALSE, version |-> version,
                    error |-> "execution failure"]
        ran == ExecuteScript(ad, script, sch, fault)
    IN Connecting(
       IF fault = "connect"
          THEN Outcome(rows, sch,
                       Returned("rollback", version, FALSE, failure, FALSE))
       ELSE IF ~ ran.ok \/ fault = "write" \/ fault = "commit"
          THEN Outcome(rows, AfterRollback(ad, sch, ran.schema),
                       Returned("rollback", version, FALSE, failure, TRUE))
       ELSE [ ledger |-> Ranked(LedgerDelete(rows, version)),
              schema |-> ran.schema,
              last |-> Returned("rollback", version, FALSE,
                           [success |-> TRUE, version |-> version,
                            message |-> "rolled back"], TRUE),
              applied |-> {}, rolled |-> {version},
              connects |-> 0 ])

\* mutant of RollbackMigration: the ledger is not asked whether the version
\* is applied
RollbackMigrationUnchecked(ad, files, downs, rows, sch, version, dry_run, fault) ==
    LET available == GetAvailableMigrations(files)
        migration == EntryFor(available, version)
    IN IF version \notin VersionsOf(available)
          THEN Outcome(rows, sch,
                   Returned("rollback", version, dry_run,
                       [success |-> FALSE, error |-> "not found"], FALSE))
       ELSE IF migration.path \notin DOMAIN downs
          THEN Outcome(rows, sch,
                   Returned("rollback", version, dry_run,
                       [success |-> FALSE, error |-> "rollback file not found"],
                       FALSE))
       ELSE IF dry_run
          THEN Outcome(rows, sch,
                   Returned("rollback", version, dry_run,
                       [success |-> TRUE, dry_run |-> TRUE, version |-> version,
                        sql_preview |->
                            Preview(Text(downs[migration.path]))], FALSE))
       ELSE RollbackExecute(ad, rows, sch, version,
                            downs[migration.path].sql, fault)

\* mutant of RollbackMigration: a missing down-file counts as an empty script
RollbackMigrationMissingIsEmpty(ad, files, downs, rows, sch, version, dry_run, fault) ==
    LET available == GetAvailableMigrations(files)
        migration == EntryFor(available, version)
        script == IF migration.path \in DOMAIN downs
                     THEN downs[migration.path].sql ELSE <<>>
    IN IF version \notin VersionsOf(available)
          THEN Outcome(rows, sch,
                   Returned("rollback", version, dry_run,
                       [success |-> FALSE, error |-> "not found"], FALSE))
       ELSE Connecting(
          IF fault = "read"
          THEN Outcome(rows, sch, Raised("rollback", version, dry_run, FALSE))
       ELSE IF version \notin VersionsOf(GetAppliedMigrations(rows))
          THEN Outcome(rows, sch,
                   Returned("rollback", version, dry_run,
                       [success |-> FALSE, error |-> "not applied"], FALSE))
       ELSE IF dry_run
          THEN Outcome(rows, sch,
                   Returned("rollback", version, dry_run,
                       [success |-> TRUE, dry_run |-> TRUE, version |-> version,
                        sql_preview |-> Preview(SqlText(script) \o Newline)], FALSE))
       ELSE RollbackExecute(ad, rows, sch, version, script, fault))

\* MigrationEngine.rollback_migration
RollbackMigration(ad, files, downs, rows, sch, version, dry_run, fault) ==
    LET available == GetAvailableMigrations(files)
        migration == EntryFor(available, version)
    IN IF version \notin VersionsOf(available)
          THEN Outcome(rows, sch,
                   Returned("rollback", version, dry_run,
                       [success |-> FALSE, error |-> "not found"], FALSE))
       ELSE IF migration.path \notin DOMAIN downs
          THEN Outcome(rows, sch,
                   Returned("rollback", version, dry_run,
                       [success |-> FALSE, error |-> "rollback file not found"],
                       FALSE))
       ELSE Connecting(
          IF fault = "read"
          THEN Outcome(rows, sch, Raised("rollback", version, dry_run, FALSE))
       ELSE IF version \notin VersionsOf(GetAppliedMigrations(rows))
          THEN Outcome(rows, sch,
                   Returned("rollback", version, dry_run,
                       [success |-> FALSE, error |-> "not applied"], FALSE))
       ELSE IF dry_run
          THEN Outcome(rows, sch,
                   Returned("rollback", version, dry_run,
                       [success |-> TRUE, dry_run |-> TRUE, version |-> version,
                        sql_preview |->
                            Preview(Text(downs[migration.path]))], FALSE))
       ELSE RollbackExecute(ad, rows, sch, version,
                            downs[migration.path].sql, fault))

\* mutant of NextVersion: the highest version is not incremented
NextVersionNoIncrement(existing) ==
    IF Len(existing) = 0 THEN FormatVersion(1)
    ELSE LET ints == { ParseInt(existing[i].version) : i \in 1..Len(existing) }
             last_version == CHOOSE n \in ints : \A k \in ints : k <= n
         IN FormatVersion(last_version)

\* the next version create_migration generates
NextVersion(existing) ==
    IF Len(existing) = 0 THEN FormatVersion(1)
    ELSE LET ints == { ParseInt(existing[i].version) : i \in 1..Len(existing) }
             last_version == CHOOSE n \in ints : \A k \in ints : k <= n
         IN FormatVersion(last_version + 1)

\* the text create_migration writes to the up-file: header, then the SQL
\* (the creation time of the header is left out: no call reads it)
UpContent(stem, name, up_sql) ==
    [hdr |-> <<"Migration", stem, name>>, sql |-> up_sql]

\* the text create_migration writes to the down-file
DownContent(stem, down_sql) ==
    [hdr |-> <<"Rollback", stem>>, sql |-> down_sql]

\* f with the file "stem" written (created or overwritten)
WriteFile(f, stem, content) ==
    [s \in DOMAIN f \cup {stem} |-> IF s = stem THEN content ELSE f[s]]

\* f with the file "stem" deleted
DeleteFile(f, stem) == [s \in DOMAIN f \ {stem} |-> f[s]]

(* ------------------ the MigrationEngine of server.py ------------------ *)

\* server.py's MigrationEngine._calculate_checksum
ServerCalculateChecksum(content) == <<"sha256", content>>

\* server.py's MigrationEngine.get_available_migrations: one entry of the list
ServerCatalogEntry(files, stem) ==
    [ version      |-> VersionOf(stem),
      name         |-> NameOf(stem),
      full_version |-> stem,
      checksum     |-> ServerCalculateChecksum(files[stem]),
      path         |-> stem ]

\* server.py's MigrationEngine.get_available_migrations
ServerGetAvailableMigrations(files) ==
    LET stems == SortedStems(DOMAIN files)
    IN [i \in 1..Len(stems) |-> ServerCatalogEntry(files, stems[i])]

\* server.py's MigrationEngine.get_applied_migrations
ServerGetAppliedMigrations(rows) == SortedRows(rows)

\* server.py's MigrationEngine.get_status: the drift entries
ServerDriftOf(applied, applied_list) ==
    LET Mismatch(m) ==
            /\ m.version \in VersionsOf(applied_list)
            /\ m.checksum # EntryFor(applied_list, m.version).checksum
        drifted == SelectSeq(applied, Mismatch)
    IN [i \in 1..Len(drifted) |->
          [ version  |-> drifted[i].version,
            expected |-> EntryFor(applied_list, drifted[i].version).checksum,
            actual   |-> drifted[i].checksum ]]

\* server.py's MigrationEngine.get_status: current_version
ServerCurrentVersion(applied_list) ==
    IF Len(applied_list) = 0 THEN None
    ELSE applied_list[Len(applied_list)].version

\* server.py's MigrationEngine.get_status
ServerGetStatus(files, rows) ==
    LET applied_list == ServerGetAppliedMigrations(rows)
        applied_versions == VersionsOf(applied_list)
        available == ServerGetAvailableMigrations(files)
        IsPending(m) == m.version \notin applied_versions
        IsApplied(m) == m.version \in applied_versions
        applied == SelectSeq(available, IsApplied)
    IN [ pending         |-> SelectSeq(available, IsPending),
         applied         |-> applied,
         drift_detected  |-> ServerDriftOf(applied, applied_list),
         current_version |-> ServerCurrentVersion(applied_list) ]

\* server.py's MigrationEngine.apply_migration: the try block
ServerApplyExecute(ad, rows, sch, migration, script, fault, ms) ==
    LET version == migration.version
        failure == [success |-> FALSE, version |-> version,
                    error |-> "execution failure"]
        ran == ExecuteScript(ad, script, sch, fault)
        row == [ version |-> version, name |-> migration.name,
                 checksum |-> migration.checksum,
                 applied_at |-> AppliedAt(rows),
                 execution_time_ms |-> ms ]
        ins == LedgerInsert(rows, row)
    IN Connecting(
       IF fault = "connect"
          THEN Outcome(rows, sch,
                       Returned("apply", version, FALSE, failure, FALSE))
       ELSE IF ~ ran.ok \/ fault = "write" \/ ~ ins.ok \/ fault = "commit"
          THEN Outcome(rows, AfterRollback(ad, sch, ran.schema),
                       Returned("apply", version, FALSE, failure, TRUE))
       ELSE [ ledger |-> ins.rows, schema |-> ran.schema,
              last |-> Returned("apply", version, FALSE,
                           [success |-> TRUE, version |-> version,
                            name |-> migration.name,
                            execution_time_ms |-> ms], TRUE),
              applied |-> {version}, rolled |-> {}, connects |-> 0 ])

\* server.py's MigrationEngine.apply_migration
ServerApplyMigration(ad, files, rows, sch, version, dry_run, fault, ms) ==
    LET available == ServerGetAvailableMigrations(files)
        migration == EntryFor(available, version)
    IN IF version \notin VersionsOf(available)
          THEN Outcome(rows, sch,
                   Returned("apply", version, dry_run,
                       [success |-> FALSE, error |-> "not found"], FALSE))
       ELSE Connecting(
          IF fault = "read"
          THEN Outcome(rows, sch, Raised("apply", version, dry_run, FALSE))
       ELSE IF version \in VersionsOf(ServerGetAppliedMigrations(rows))
          THEN Outcome(rows, sch,
                   Returned("apply", version, dry_run,
                       [success |-> FALSE, error |-> "already applied"], FALSE))
       ELSE IF dry_run
          THEN Outcome(rows, sch,
                   Returned("apply", version, dry_run,
                       [success |-> TRUE, dry_run |-> TRUE, version |-> version,
                        name |-> migration.name,
                        sql_preview |->
                            Preview(Text(files[migration.path]))], FALSE))
       ELSE ServerApplyExecute(ad, rows, sch, migration,
                         files[migration.path].sql, fault, ms))

\* server.py's MigrationEngine.rollback_migration: the try block
ServerRollbackExecute(ad, rows, sch, version, script, fault) ==
    LET failure == [success |-> FALSE, version |-> version,
                    error |-> "execution failure"]
        ran == ExecuteScript(ad, script, sch, fault)
    IN Connecting(
       IF fault = "connect"
          THEN Outcome(rows, sch,
                       Returned("rollback", version, FALSE, failure, FALSE))
       ELSE IF ~ ran.ok \/ fault = "write" \/ fault = "commit"
          THEN Outcome(rows, AfterRollback(ad, sch, ran.schema),
                       Returned("rollback", version, FALSE, failure, TRUE))
       ELSE [ ledger |-> Ranked(LedgerDelete(rows, version)),
              schema |-> ran.schema,
              last |-> Returned("rollback", version, FALSE,
                           [success |-> TRUE, version |-> version,
                            message |-> "rolled back"], TRUE),
              applied |-> {}, rolled |-> {version},
              connects |-> 0 ])

\* mutant of ServerRollbackMigration: the ledger is asked before the
\* down-file is looked for
ServerRollbackMigrationLedgerFirst(ad, files, downs, rows, sch, version, dry_run, fault) ==
    LET available == ServerGetAvailableMigrations(files)
        migration == EntryFor(available, version)
    IN IF version \notin VersionsOf(available)
          THEN Outcome(rows, sch,
                   Returned("rollback", version, dry_run,
                       [success |-> FALSE, error |-> "not found"], FALSE))
       ELSE Connecting(
          IF fault = "read"
          THEN Outcome(rows, sch, Raised("rollback", version, dry_run, FALSE))
       ELSE IF version \notin VersionsOf(ServerGetAppliedMigrations(rows))
          THEN Outcome(rows, sch,
                   Returned("rollback", version, dry_run,
                       [success |-> FALSE, error |-> "not applied"], FALSE))
       ELSE IF migration.path \notin DOMAIN downs
          THEN Outcome(rows, sch,
                   Returned("rollback", version, dry_run,
                       [success |-> FALSE, error |-> "rollback file not found"],
                       FALSE))
       ELSE IF dry_run
          THEN Outcome(rows, sch,
                   Returned("rollback", version, dry_run,
                       [success |-> TRUE, dry_run |-> TRUE, version |-> version,
                        sql_preview |->
                            Preview(Text(downs[migration.path]))], FALSE))
       ELSE ServerRollbackExecute(ad, rows, sch, version,
                            downs[migration.path].sql, fault))

\* server.py's MigrationEngine.rollback_migration
ServerRollbackMigration(ad, files, downs, rows, sch, version, dry_run, fault) ==
    LET available == ServerGetAvailableMigrations(files)
        migration == EntryFor(available, version)
    IN IF version \notin VersionsOf(available)
          THEN Outcome(rows, sch,
                   Returned("rollback", version, dry_run,
                       [success |-> FALSE, error |-> "not found"], FALSE))
       ELSE IF migration.path \notin DOMAIN downs
          THEN Outcome(rows, sch,
                   Returned("rollback", version, dry_run,
                       [success |-> FALSE, error |-> "rollback file not found"],
                       FALSE))
       ELSE Connecting(
          IF fault = "read"
          THEN Outcome(rows, sch, Raised("rollback", version, dry_run, FALSE))
       ELSE IF version \notin VersionsOf(ServerGetAppliedMigrations(rows))
          THEN Outcome(rows, sch,
                   Returned("rollback", version, dry_run,
                       [success |-> FALSE, error |-> "not applied"], FALSE))
       ELSE IF dry_run
          THEN Outcome(rows, sch,
                   Returned("rollback", version, dry_run,
                       [success |-> TRUE, dry_run |-> TRUE, version |-> version,
                        sql_preview |->
                            Preview(Text(downs[migration.path]))], FALSE))
       ELSE ServerRollbackExecute(ad, rows, sch, version,
                            downs[migration.path].sql, fault))

\* server.py's MigrationEngine.create_migration: the next version
ServerNextVersion(existing) ==
    IF Len(existing) = 0 THEN FormatVersion(1)
    ELSE LET ints == { ParseInt(existing[i].version) : i \in 1..Len(existing) }
             last_version == CHOOSE n \in ints : \A k \in ints : k <= n
         IN FormatVersion(last_version + 1)

\* server.py's MigrationEngine.create_migration: the files after the call
\* and what it returns
ServerCreateMigration(files, downs, name, up_sql, down_sql) ==
    LET version == ServerNextVersion(ServerGetAvailableMigrations(files))
        safe_name == SafeName(name)
        stem == StemOf(version, safe_name)
    IN [ upFiles |-> WriteFile(files, stem, UpContent(stem, name, up_sql)),
         downFiles |-> IF down_sql # <<>>
                          THEN WriteFile(downs, stem,
                                         DownContent(stem, down_sql))
                       ELSE downs,
         ret |-> [ success |-> TRUE, version |-> version,
                   name |-> safe_name, up_file |-> stem,
                   down_file |-> IF down_sql # <<>> THEN stem ELSE None ] ]

(* ------------------------- the server's tools ------------------------- *)

\* server.rollback_last: the last entry of status["applied"]
RollbackLastTool(ad, files, downs, rows, sch, fault) ==
    LET applied == GetStatus(files, rows).applied
        target == applied[Len(applied)].version
        out == RollbackMigration(ad, files, downs, rows, sch, target, FALSE,
                                 fault)
    IN Connecting(
       IF fault = "status"
          THEN Outcome(rows, sch, Raised("rollback_last", None, FALSE, FALSE))
       ELSE IF Len(applied) = 0
          THEN Outcome(rows, sch,
                   Returned("rollback_last", None, FALSE,
                       [success |-> FALSE, error |-> "no migrations to rollback"],
                       FALSE))
       ELSE [out EXCEPT !.last.op = "rollback_last"])

\* results.append(result), and what the loop has done so far
Gathered(acc, out) ==
    [ results |-> Append(acc.results, out.last.ret),
      applied |-> acc.applied \cup out.applied,
      ran |-> acc.ran \/ out.last.scriptRan,
      connects |-> acc.connects + out.connects ]

\* the loop of apply_all_pending left by an exception of apply_migration
LoopRaised(acc, out) ==
    [ ledger |-> out.ledger, schema |-> out.schema, raised |-> TRUE,
      results |-> acc.results, applied |-> acc.applied, ran |-> acc.ran,
      connects |-> acc.connects + out.connects ]

\* the loop of apply_all_pending at its end or at its break
LoopEnded(rows, sch, acc) ==
    [ ledger |-> rows, schema |-> sch, raised |-> FALSE,
      results |-> acc.results, applied |-> acc.applied, ran |-> acc.ran,
      connects |-> acc.connects ]

\* if not result["success"] and not dry_run: break
Breaks(out, dry_run) == ~ out.last.ret.success /\ ~ dry_run

RECURSIVE ApplyEachNoBreak(_, _, _, _, _, _, _, _, _, _, _)
RECURSIVE AfterApplyNoBreak(_, _, _, _, _, _, _, _, _, _)
\* mutant of ApplyEach: the loop goes on after a failed apply_migration
ApplyEachNoBreak(ad, files, rows, sch, pending, dry_run, k, fault, ms, i, acc) ==
    IF i > Len(pending) THEN LoopEnded(rows, sch, acc)
    ELSE AfterApplyNoBreak(ad, files, pending, dry_run, k, fault, ms, i, acc,
             ApplyMigration(ad, files, rows, sch, pending[i].version, dry_run,
                            IF i = k THEN fault ELSE "none", ms))

\* the rest of the loop without its break
AfterApplyNoBreak(ad, files, pending, dry_run, k, fault, ms, i, acc, out) ==
    IF out.last.raised THEN LoopRaised(acc, out)
    ELSE ApplyEachNoBreak(ad, files, out.ledger, out.schema, pending, dry_run,
                          k, fault, ms, i + 1, Gathered(acc, out))

RECURSIVE ApplyEach(_, _, _, _, _, _, _, _, _, _, _)
RECURSIVE AfterApply(_, _, _, _, _, _, _, _, _, _)
\* the loop of server.apply_all_pending from its i-th pending migration on;
\* the driver fails at step "fault" of the k-th call of apply_migration
ApplyEach(ad, files, rows, sch, pending, dry_run, k, fault, ms, i, acc) ==
    IF i > Len(pending) THEN LoopEnded(rows, sch, acc)
    ELSE AfterApply(ad, files, pending, dry_run, k, fault, ms, i, acc,
             ApplyMigration(ad, files, rows, sch, pending[i].version, dry_run,
                            IF i = k THEN fault ELSE "none", ms))

\* the loop once the i-th apply_migration has come back with out
AfterApply(ad, files, pending, dry_run, k, fault, ms, i, acc, out) ==
    IF out.last.raised THEN LoopRaised(acc, out)
    ELSE IF Breaks(out, dry_run)
       THEN LoopEnded(out.ledger, out.schema, Gathered(acc, out))
    ELSE ApplyEach(ad, files, out.ledger, out.schema, pending, dry_run,
                   k, fault, ms, i + 1, Gathered(acc, out))

\* the result apply_all_pending returns when its loop has ended
Aggregate(pending, dry_run, loop) ==
    [ ledger |-> loop.ledger, schema |-> loop.schema,
      last |-> IF loop.raised
                  THEN Raised("apply_all", None, dry_run, loop.ran)
               ELSE Returned("apply_all", None, dry_run,
                        [ total |-> Len(pending),
                          applied |-> Cardinality(
                              { j \in 1..Len(loop.results) :
                                  loop.results[j].success }),
                          dry_run |-> dry_run,
                          results |-> loop.results ], loop.ran),
      applied |-> loop.applied, rolled |-> {},
      connects |-> loop.connects ]

\* the loop of apply_all_pending over the list pending
PendingLoop(ad, files, rows, sch, dry_run, k, fault, ms, pending) ==
    Aggregate(pending, dry_run,
        ApplyEach(ad, files, rows, sch, pending, dry_run, k, fault, ms, 1,
                  [ results |-> <<>>, applied |-> {}, ran |-> FALSE,
                    connects |-> 0 ]))

\* server.apply_all_pending
ApplyAllPendingTool(ad, files, rows, sch, dry_run, k, fault, ms) ==
    Connecting(
       IF fault = "status"
          THEN Outcome(rows, sch, Raised("apply_all", None, dry_run, FALSE))
       ELSE PendingLoop(ad, files, rows, sch, dry_run, k, fault, ms,
                        GetStatus(files, rows).pending))

\* server.check_drift: "details" is there only when drift is
CheckDriftTool(files, rows) ==
    LET drift == GetStatus(files, rows).drift_detected
    IN IF Len(drift) > 0
          THEN [drift_detected |-> TRUE, details |-> drift]
       ELSE [drift_detected |-> FALSE]

\* server.read_migration_sql
ReadMigrationSqlTool(files, downs, version, direction) ==
    LET available == GetAvailableMigrations(files)
        matching == { i \in 1..Len(available) :
                        \/ available[i].version = version
                        \/ available[i].full_version = version }
        first == CHOOSE i \in matching : \A j \in matching : i <= j
        path == available[first].path
        dir == IF direction = "up" THEN files ELSE downs
    IN IF matching = {} THEN [found |-> FALSE, text |-> "migration not found"]
       ELSE IF path \in DOMAIN dir THEN [found |-> TRUE, text |-> dir[path]]
       ELSE [found |-> FALSE, text |-> "file not found"]

\* str.upper() on the letters a-z
UpperChar(c) == IF c \in 97..122 THEN c - 32 ELSE c

\* query.upper()
Upper(text) == [i \in 1..Len(text) |-> UpperChar(text[i])]

\* "word in text" of two Python strings
Contains(text, word) ==
    \E i \in 0..(Len(text) - Len(word)) :
        SubSeq(text, i + 1, i + Len(word)) = word

\* dangerous = ["DROP", "DELETE", "UPDATE", "INSERT", "ALTER", "TRUNCATE",
\*              "CREATE"]
Dangerous ==
    << <<68, 82, 79, 80>>,
       <<68, 69, 76, 69, 84, 69>>,
       <<85, 80, 68, 65, 84, 69>>,
       <<73, 78, 83, 69, 82, 84>>,
       <<65, 76, 84, 69, 82>>,
       <<84, 82, 85, 78, 67, 65, 84, 69>>,
       <<67, 82, 69, 65, 84, 69>> >>

\* mutant of BlockedKeywords: the query is compared as it was typed
BlockedKeywordsCaseSensitive(query) ==
    { k \in 1..Len(Dangerous) : Contains(query, Dangerous[k]) }

\* the keywords of "dangerous" found in query.upper()
BlockedKeywords(query) ==
    { k \in 1..Len(Dangerous) : Contains(Upper(query), Dangerous[k]) }

\* the query texts a caller sends, and what the database does with each
\* when it is executed: "SELECT 1"
Select1 ==
    <<83, 69, 76, 69, 67, 84, 32, 49>>

\* "drop table t1"
DropLower ==
    <<100, 114, 111, 112, 32, 116, 97, 98, 108, 101, 32, 116, 49>>

\* "Select updated_at From t1"
SelectUpdatedAt ==
    <<83, 101, 108, 101, 99, 116, 32, 117, 112, 100, 97, 116, 101, 100, 95,
      97, 116, 32, 70, 114, 111, 109, 32, 116, 49>>

\* "SELEC 1"
Misspelt ==
    <<83, 69, 76, 69, 67, 32, 49>>

\* "REPLACE INTO schema_migrations (version, name, checksum)
\*  VALUES ('001', 'x', 'x')"
ReplaceRow ==
    <<82, 69, 80, 76, 65, 67, 69, 32, 73, 78, 84, 79, 32, 115, 99, 104, 101,
      109, 97, 95, 109, 105, 103, 114, 97, 116, 105, 111, 110, 115, 32, 40,
      118, 101, 114, 115, 105, 111, 110, 44, 32, 110, 97, 109, 101, 44, 32,
      99, 104, 101, 99, 107, 115, 117, 109, 41, 32, 86, 65, 76, 85, 69, 83,
      32, 40, 39, 48, 48, 49, 39, 44, 32, 39, 120, 39, 44, 32, 39, 120, 39,
      41>>

Queries ==
    { [text |-> Select1, does |-> "select"],
      [text |-> DropLower, does |-> "drop"],
      [text |-> SelectUpdatedAt, does |-> "select"],
      [text |-> Misspelt, does |-> "syntax error"],
      [text |-> ReplaceRow, does |-> "replace"] }

\* the ledger after REPLACE INTO schema_migrations ... VALUES ('001', 'x',
\* 'x'): the row of version '001', if any, is deleted and the new one
\* inserted, applied_at and execution_time_ms at their defaults
ReplacedRow(rows) ==
    LET kept == Ranked(LedgerDelete(rows, <<48, 48, 49>>))
    IN kept \cup { [ version |-> <<48, 48, 49>>, name |-> <<120>>,
                     checksum |-> <<120>>, applied_at |-> AppliedAt(kept),
                     execution_time_ms |-> -1 ] }

\* what leaving "with db_adapter.connect() as conn" does to the statements
\* of the block when nobody called commit(): sqlite3 and psycopg2 commit the
\* open transaction, mysql.connector closes the connection and the server
\* rolls it back
WithBlockCommits(ad) == ad \in {"sqlite", "postgres"}

\* server.run_query
RunQueryTool(ad, rows, sch, query, fault) ==
    LET blocked == BlockedKeywords(query.text)
        keyword == CHOOSE k \in blocked : \A j \in blocked : k <= j
    IN IF blocked # {}
          THEN Outcome(rows, sch,
                   Returned("run_query", query.text, FALSE,
                       [error |-> "safety block", keyword |-> Dangerous[keyword]],
                       FALSE))
       ELSE Connecting(
          IF fault = "connect"
             THEN Outcome(rows, sch,
                      Returned("run_query", query.text, FALSE,
                          [error |-> "driver error"], FALSE))
          ELSE IF query.does = "syntax error" \/ query.does = "drop"
             THEN Outcome(rows, sch,
                      Returned("run_query", query.text, FALSE,
                          [error |-> "driver error"], TRUE))
          ELSE IF query.does = "select"
             THEN Outcome(rows, sch,
                      Returned("run_query", query.text, FALSE,
                          [columns |-> <<"1">>, rows |-> <<<<1>>>>,
                           row_count |-> 1], TRUE))
          ELSE Outcome(IF WithBlockCommits(ad) THEN ReplacedRow(rows) ELSE rows,
                       sch,
                       Returned("run_query", query.text, FALSE,
                           [message |-> "Query executed, no results returned"],
                           TRUE)))

\* server.test_connection
TestConnectionTool(rows, sch, fault) ==
    Connecting(
       Outcome(rows, sch,
           Returned("test_connection", None, FALSE,
               IF fault = "connect"
                  THEN [success |-> FALSE, error |-> "driver error"]
               ELSE [success |-> TRUE, message |-> "Connection successful"],
               FALSE)))

\* the tables list_tables finds: the ledger's and the migrations'
Tables(sch) == sch \cup {"schema_migrations"}

\* server.inspect_schema: inspect_table inside a try, list_tables, called
\* twice, outside any
InspectSchemaTool(rows, sch, table, fault) ==
    IF table # ""
       THEN Connecting(
               Outcome(rows, sch,
                   Returned("inspect_schema", None, FALSE,
                       IF fault = "connect" \/ table \notin Tables(sch)
                          THEN [error |-> "driver error"]
                       ELSE [table |-> table, row_count |-> 0,
                             columns |-> <<>>, indexes |-> <<>>],
                       FALSE)))
    ELSE IF fault = "connect"
       THEN Connecting(Outcome(rows, sch,
                Raised("inspect_schema", None, FALSE, FALSE)))
    ELSE Connecting(Connecting(
            Outcome(rows, sch,
                Returned("inspect_schema", None, FALSE,
                    [tables |-> Tables(sch),
                     table_count |-> Cardinality(Tables(sch))], FALSE))))

(* ------------------------------ the state ----------------------------- *)

\* a migration written by hand before the engine starts: 999_s.up.sql
SeedStem == <<57, 57, 57, 95, 115>>
SeedUp == [hdr |-> <<>>, sql |-> <<Create("t0")>>]
SeedDown == [hdr |-> <<>>, sql |-> <<Drop("t0")>>]

NoFiles == [s \in {} |-> SeedUp]

\* a version no file carries: "042"
AbsentVersion == <<48, 52, 50>>

\* the durations the engine may measure, in ms
ExecutionTimes == {7}

NoSnap == [kind |-> "none"]

\* CPython frees an object when the last reference to it goes ("refcount");
\* other interpreters free it at some later collection ("tracing")
Runtimes == {"refcount", "tracing"}

\* the two callers whose apply_migration calls run side by side
Callers == {1, 2}

\* a caller that has not called: where its call is, what it observed of the
\* version, the catalog entry of its scan, the file content it read, what it
\* returned, and what its open transaction holds
Idle ==
    [ pc |-> "idle", observed |-> "none", entry |-> [version |-> None],
      read |-> [hdr |-> <<>>, sql |-> <<>>], ret |-> [success |-> FALSE],
      tx_schema |-> {}, tx_rows |-> {} ]

\* nobody is calling
NoCalls == [p \in Callers |-> Idle]

\* The engine has been constructed: the ledger table exists and is empty.
InitWith(adapters, seeded) ==
    /\ adapter \in adapters
    /\ IF seeded
          THEN /\ upFiles = WriteFile(NoFiles, SeedStem, SeedUp)
               /\ downFiles = WriteFile(NoFiles, SeedStem, SeedDown)
          ELSE upFiles = NoFiles /\ downFiles = NoFiles
    /\ ledger = {}
    /\ schema = {}
    /\ last = Returned("init", None, FALSE, [success |-> TRUE], FALSE)
    /\ created = Cardinality(DOMAIN upFiles)
    /\ appliedOk = {}
    /\ snap = NoSnap
    /\ connects = 1
    /\ runtime = "refcount"
    /\ calls = NoCalls

\* an empty migrations directory, any of the three backends
Init == InitWith(Adapters, FALSE)

\* an empty migrations directory, the embedded backend
InitEnv == InitWith({"sqlite"}, FALSE)

\* a directory that holds one hand-written migration, 999_s
InitWide == InitWith({"sqlite"}, TRUE)

\* a directory that is empty or holds the migration 999_s
InitAuthor == \E seeded \in BOOLEAN : InitWith({"sqlite"}, seeded)

\* the lengths of the hand-written scripts, about the length of a preview
ScriptLengths == (PreviewLimit - 2)..(PreviewLimit + 3)

\* the statements sql and a comment that brings the file to n characters
Padded(sql, n) ==
    [hdr |-> <<>>, sql |-> sql \o <<Filler(n - Len(SqlText(sql)) - 2)>>]

\* a directory that holds the migration 999_s, its two scripts of one of the
\* lengths about the length of a preview; the embedded backend
InitPreview ==
    \E n \in ScriptLengths :
        /\ adapter = "sqlite"
        /\ upFiles = WriteFile(NoFiles, SeedStem, Padded(<<Create("t0")>>, n))
        /\ downFiles = WriteFile(NoFiles, SeedStem, Padded(<<Drop("t0")>>, n))
        /\ ledger = {}
        /\ schema = {}
        /\ last = Returned("init", None, FALSE, [success |-> TRUE], FALSE)
        /\ created = Cardinality(DOMAIN upFiles)
        /\ appliedOk = {}
        /\ snap = NoSnap
        /\ connects = 1
        /\ runtime = "refcount"
        /\ calls = NoCalls

\* a second migration written by hand: 998_s.up.sql
TwinStem == <<57, 57, 56, 95, 115>>

\* the names a migration is renamed to: "x"
NewNames == { <<120>> }

\* the SQL texts an editor of a down-file leaves in it
DownScripts == { <<Drop("t0")>>, <<Drop("t1")>> }

\* a directory that holds two hand-written migrations of the same content,
\* 998_s and 999_s, without down-files; the embedded backend
InitFiles ==
    /\ adapter = "sqlite"
    /\ upFiles = WriteFile(WriteFile(NoFiles, SeedStem, SeedUp), TwinStem, SeedUp)
    /\ downFiles = NoFiles
    /\ ledger = {}
    /\ schema = {}
    /\ last = Returned("init", None, FALSE, [success |-> TRUE], FALSE)
    /\ created = Cardinality(DOMAIN upFiles)
    /\ appliedOk = {}
    /\ snap = NoSnap
    /\ connects = 1
    /\ runtime = "refcount"
    /\ calls = NoCalls

\* The connections the last call opened that are still open once it has
\* returned or raised. No call closes a connection: each leaves it to the
\* "with" block. mysql.connector closes the connection when the block is
\* left; sqlite3 and psycopg2 only end the transaction, and the connection
\* is closed when the interpreter frees the object: on "refcount" as the
\* call returns, unless an exception leaves the call and its traceback
\* keeps the frame, on "tracing" at some later collection.
Held(ad, rt, raised, opened) ==
    IF ad = "mysql" THEN 0
    ELSE IF rt = "refcount" /\ ~ raised THEN 0
    ELSE opened

\* an empty migrations directory, any backend, any interpreter
InitConn ==
    /\ adapter \in Adapters
    /\ runtime \in Runtimes
    /\ upFiles = NoFiles /\ downFiles = NoFiles
    /\ ledger = {}
    /\ schema = {}
    /\ last = Returned("init", None, FALSE, [success |-> TRUE], FALSE)
    /\ created = 0
    /\ appliedOk = {}
    /\ snap = NoSnap
    /\ connects = 1
    /\ calls = NoCalls

\* the up-scripts of the migration two callers apply side by side: one that
\* cannot run twice, one that can, one that is a comment and a statement
RaceScripts ==
    { <<Create("t0")>>, <<Filler(4)>>, <<Filler(4), Create("t0")>> }

\* a directory that holds the migration 999_s, pending, on any backend
InitRace ==
    \E sql \in RaceScripts :
        /\ adapter \in Adapters
        /\ runtime = "refcount"
        /\ upFiles = WriteFile(NoFiles, SeedStem, [hdr |-> <<>>, sql |-> sql])
        /\ downFiles = NoFiles
        /\ ledger = {}
        /\ schema = {}
        /\ last = Returned("init", None, FALSE, [success |-> TRUE], FALSE)
        /\ created = Cardinality(DOMAIN upFiles)
        /\ appliedOk = {}
        /\ snap = NoSnap
        /\ connects = 1
        /\ calls = NoCalls

\* a caller that has not called create_migration: where its call is, its
\* arguments, the version and the file stem it computed, what it returned
NotCreating ==
    [ pc |-> "idle", args |-> <<>>, version |-> None, stem |-> None,
      ret |-> [success |-> FALSE] ]

\* an empty migrations directory and two callers about to author
InitCreate ==
    /\ adapter = "sqlite"
    /\ runtime = "refcount"
    /\ upFiles = NoFiles /\ downFiles = NoFiles
    /\ ledger = {}
    /\ schema = {}
    /\ last = Returned("init", None, FALSE, [success |-> TRUE], FALSE)
    /\ created = 0
    /\ appliedOk = {}
    /\ snap = NoSnap
    /\ connects = 1
    /\ calls = [p \in Callers |-> NotCreating]

\* no execute_script call has been made on the script text
NotExecuted(script) ==
    [ pc |-> "idle", script |-> script, raised |-> FALSE, executed |-> <<>> ]

\* a MySQL database without tables and a script text to execute
InitScript ==
    \E script \in ScriptTexts :
        /\ adapter = "mysql"
        /\ runtime = "refcount"
        /\ upFiles = NoFiles /\ downFiles = NoFiles
        /\ ledger = {}
        /\ schema = {}
        /\ last = Returned("init", None, FALSE, [success |-> TRUE], FALSE)
        /\ created = 0
        /\ appliedOk = {}
        /\ snap = NoSnap
        /\ connects = 1
        /\ calls = NotExecuted(script)

\* the versions a caller may name
VersionInputs ==
    VersionsOf(GetAvailableMigrations(upFiles))
        \cup { r.version : r \in ledger } \cup {AbsentVersion}

\* the status partition a round trip is compared on
Partition(files, rows) ==
    LET st == GetStatus(files, rows)
    IN [ pending |-> st.pending, applied |-> st.applied,
         current_version |-> st.current_version ]

\* the history variables after a call with outcome out
History(out) ==
    /\ appliedOk' = (appliedOk \cup out.applied) \ out.rolled
    /\ snap' =
         IF out.last.op = "apply" /\ out.applied # {}
            THEN [ kind |-> "applied", version |-> out.last.version,
                   ledger |-> ledger, status |-> Partition(upFiles, ledger) ]
         ELSE IF /\ out.last.op = "rollback" /\ out.rolled # {}
                 /\ snap.kind = "applied"
                 /\ snap.version = out.last.version
            THEN [snap EXCEPT !.kind = "undone"]
         ELSE NoSnap

\* a call of the engine changes the database as out says
Database(out) ==
    /\ ledger' = out.ledger
    /\ schema' = out.schema
    /\ last' = out.last
    /\ History(out)
    /\ connects' = out.connects
    /\ UNCHANGED <<adapter, runtime, calls, upFiles, downFiles, created>>

\* a call that only reads, entering n blocks "with connect() as conn"
Reads(outcome, n) ==
    /\ last' = outcome
    /\ connects' = n
    /\ snap' = NoSnap
    /\ UNCHANGED <<adapter, runtime, calls, upFiles, downFiles, ledger, schema, created,
                   appliedOk>>

(* ------------------------------ the calls ----------------------------- *)

\* apply_migration(version, dry_run)
Apply(version, dry_run, fault, ms) ==
    Database(ApplyMigration(adapter, upFiles, ledger, schema, version,
                            dry_run, fault, ms))

\* mutant of Rollback: a successful rollback deletes the down-file it ran
RollbackRemovesDownFile(version, dry_run, fault) ==
    LET out == RollbackMigration(adapter, upFiles, downFiles, ledger, schema,
                                 version, dry_run, fault)
    IN /\ ledger' = out.ledger
       /\ schema' = out.schema
       /\ last' = out.last
       /\ History(out)
       /\ connects' = out.connects
       /\ downFiles' =
             IF out.rolled = {} THEN downFiles
             ELSE DeleteFile(downFiles,
                      EntryFor(GetAvailableMigrations(upFiles), version).path)
       /\ UNCHANGED <<adapter, runtime, calls, upFiles, created>>

\* rollback_migration(version, dry_run)
Rollback(version, dry_run, fault) ==
    Database(RollbackMigration(adapter, upFiles, downFiles, ledger, schema,
                               version, dry_run, fault))

\* get_status(), and the migration_status tool that returns it
Status(fault) ==
    Reads(IF fault = "read" THEN Raised("status", None, FALSE, FALSE)
          ELSE Returned("status", None, FALSE, GetStatus(upFiles, ledger),
                        FALSE), 1)

\* mutant of CreateMigration: the down-file is written whatever down_sql is
CreateMigrationAlwaysWritesDown(name, up_sql, down_sql) ==
    LET version == NextVersion(GetAvailableMigrations(upFiles))
        safe_name == SafeName(name)
        stem == StemOf(version, safe_name)
    IN /\ created < MaxCreates
       /\ created' = created + 1
       /\ upFiles' = WriteFile(upFiles, stem, UpContent(stem, name, up_sql))
       /\ downFiles' = WriteFile(downFiles, stem,
                                  DownContent(stem, down_sql))
       /\ last' = Returned("create", version, FALSE,
                      [ success |-> TRUE, version |-> version,
                        name |-> safe_name, up_file |-> stem,
                        down_file |-> IF down_sql # <<>> THEN stem ELSE None ],
                      FALSE)
       /\ snap' = NoSnap
       /\ connects' = 0
       /\ UNCHANGED <<adapter, runtime, calls, ledger, schema, appliedOk>>

\* create_migration(name, up_sql, down_sql)
CreateMigration(name, up_sql, down_sql) ==
    LET version == NextVersion(GetAvailableMigrations(upFiles))
        safe_name == SafeName(name)
        stem == StemOf(version, safe_name)
    IN /\ created < MaxCreates
       /\ created' = created + 1
       /\ upFiles' = WriteFile(upFiles, stem, UpContent(stem, name, up_sql))
       /\ downFiles' = IF down_sql # <<>>
                          THEN WriteFile(downFiles, stem,
                                         DownContent(stem, down_sql))
                       ELSE downFiles
       /\ last' = Returned("create", version, FALSE,
                      [ success |-> TRUE, version |-> version,
                        name |-> safe_name, up_file |-> stem,
                        down_file |-> IF down_sql # <<>> THEN stem ELSE None ],
                      FALSE)
       /\ snap' = NoSnap
       /\ connects' = 0
       /\ UNCHANGED <<adapter, runtime, calls, ledger, schema, appliedOk>>

\* rollback_last()
RollbackLast(fault) ==
    Database(RollbackLastTool(adapter, upFiles, downFiles, ledger, schema,
                              fault))

\* apply_all_pending(dry_run); the driver fails in the k-th apply
ApplyAllPending(dry_run, k, fault, ms) ==
    Database(ApplyAllPendingTool(adapter, upFiles, ledger, schema, dry_run,
                                 k, fault, ms))

\* check_drift()
CheckDrift(fault) ==
    Reads(IF fault = "read" THEN Raised("check_drift", None, FALSE, FALSE)
          ELSE Returned("check_drift", None, FALSE,
                        CheckDriftTool(upFiles, ledger), FALSE), 1)

\* list_pending_migrations()
ListPending(fault) ==
    Reads(IF fault = "read" THEN Raised("list_pending", None, FALSE, FALSE)
          ELSE Returned("list_pending", None, FALSE,
                        [pending |-> GetStatus(upFiles, ledger).pending],
                        FALSE), 1)

\* read_migration_sql(version, direction)
ReadMigrationSql(version, direction) ==
    Reads(Returned("read_sql", version, FALSE,
                   ReadMigrationSqlTool(upFiles, downFiles, version, direction),
                   FALSE), 0)

\* run_query(query)
RunQuery(query, fault) ==
    Database(RunQueryTool(adapter, ledger, schema, query, fault))

\* test_connection()
TestConnection(fault) ==
    Database(TestConnectionTool(ledger, schema, fault))

\* inspect_schema(table)
InspectSchema(table, fault) ==
    Database(InspectSchemaTool(ledger, schema, table, fault))

(* --------------------------- the environment -------------------------- *)

\* what somebody else's change of the directory leaves for the engine
Outside(what, stem) ==
    /\ last' = Returned(what, VersionOf(stem), FALSE, [success |-> TRUE], FALSE)
    /\ snap' = NoSnap
    /\ connects' = 0
    /\ UNCHANGED <<adapter, runtime, calls, ledger, schema, created, appliedOk>>

\* somebody edits the SQL of an up-file
EditUpScript(stem, sql) ==
    /\ stem \in DOMAIN upFiles
    /\ upFiles[stem].sql # sql
    /\ upFiles' = [upFiles EXCEPT ![stem].sql = sql]
    /\ UNCHANGED downFiles
    /\ Outside("edit", stem)

\* somebody deletes an up-file
RemoveUpFile(stem) ==
    /\ stem \in DOMAIN upFiles
    /\ upFiles' = DeleteFile(upFiles, stem)
    /\ UNCHANGED downFiles
    /\ Outside("remove_up", stem)

\* somebody deletes a down-file
RemoveDownFile(stem) ==
    /\ stem \in DOMAIN downFiles
    /\ downFiles' = DeleteFile(downFiles, stem)
    /\ UNCHANGED upFiles
    /\ Outside("remove_down", stem)

\* somebody writes the down-file of a migration, a new one or over the old
WriteDownFile(stem, sql) ==
    /\ stem \in DOMAIN upFiles
    /\ stem \in DOMAIN downFiles => downFiles[stem].sql # sql
    /\ downFiles' = WriteFile(downFiles, stem, [hdr |-> <<>>, sql |-> sql])
    /\ UNCHANGED upFiles
    /\ Outside("write_down", stem)

\* somebody renames a migration and keeps its version: the up-file and the
\* down-file V_old.*.sql become V_new.*.sql
RenameMigration(stem, name) ==
    LET to == StemOf(VersionOf(stem), name)
    IN /\ stem \in DOMAIN upFiles
       /\ to \notin DOMAIN upFiles
       /\ upFiles' = WriteFile(DeleteFile(upFiles, stem), to, upFiles[stem])
       /\ downFiles' =
             IF stem \in DOMAIN downFiles
                THEN WriteFile(DeleteFile(downFiles, stem), to, downFiles[stem])
             ELSE downFiles
       /\ Outside("rename", to)

(* ------------------- apply_migration, step by step -------------------- *)

\* the other caller
Other(p) == CHOOSE q \in Callers : q # p

\* the statements of a script that write to the database
Writes(script) == \E i \in 1..Len(script) : script[i].k # "filler"

\* a step of caller p that moves its call to "to" and touches nothing but
\* the database
Step(p, to, rows, sch) ==
    /\ calls' = [calls EXCEPT ![p] = to]
    /\ ledger' = rows
    /\ schema' = sch
    /\ UNCHANGED <<adapter, runtime, upFiles, downFiles, last, created,
                   appliedOk, snap, connects>>

\* the call of p has returned ret
Done(call, ret) ==
    [call EXCEPT !.pc = "done", !.ret = ret, !.tx_schema = {}, !.tx_rows = {}]

\* {"success": False, "version": version, "error": str(e)}
ExecutionFailure(version) ==
    [success |-> FALSE, version |-> version, error |-> "execution failure"]

\* apply_migration(version) up to its read of the ledger: the scan of the
\* catalog has the version and keeps its entry; the caller learns whether
\* the ledger has the version
Observe(p, version) ==
    LET scanned == [calls[p] EXCEPT
                       !.entry = EntryFor(GetAvailableMigrations(upFiles),
                                          version)]
    IN /\ calls[p].pc = "idle"
       /\ version \in VersionsOf(GetAvailableMigrations(upFiles))
       /\ IF version \in VersionsOf(GetAppliedMigrations(ledger))
             THEN Step(p, Done([scanned EXCEPT !.observed = "applied"],
                               [success |-> FALSE,
                                error |-> "already applied"]),
                       ledger, schema)
          ELSE Step(p, [scanned EXCEPT !.pc = "pending",
                                       !.observed = "pending"],
                    ledger, schema)

\* The file of the scanned entry is read again, then db.connect() and
\* execute_script of a caller that saw the version pending.
\* sqlite3 and MySQL commit what the script does as it runs; on PostgreSQL it
\* stays in the caller's transaction. A script that writes waits for the
\* other caller's open transaction where the two meet: on SQLite for the
\* write lock of an uncommitted INSERT, until the busy timeout raises; on
\* PostgreSQL for the object the other created and has not committed.
RunScript(p, version) ==
    LET call == calls[p]
        other == calls[Other(p)]
        content == upFiles[call.entry.path]
        script == content.sql
        ran == RunStatements(script, schema)
    IN /\ call.pc = "pending"
       /\ call.entry.path \in DOMAIN upFiles
       /\ ~ ( /\ adapter = "postgres" /\ Writes(script)
              /\ other.pc \in {"scripted", "inserted"} )
       /\ IF adapter = "sqlite" /\ Writes(script) /\ other.pc = "inserted"
             THEN Step(p, Done(call, ExecutionFailure(version)),
                       ledger, schema)
          ELSE IF ~ ran.ok
             THEN Step(p, Done(call, ExecutionFailure(version)), ledger,
                       AfterRollback(adapter, schema, ran.schema))
          ELSE Step(p, [call EXCEPT !.pc = "scripted", !.read = content,
                                    !.tx_schema = ran.schema],
                    ledger, AfterRollback(adapter, schema, ran.schema))

\* the INSERT of the ledger row. While the other caller holds an uncommitted
\* row of the version the INSERT waits: on PostgreSQL until the other ends
\* its transaction, on SQLite and MySQL also until the lock timeout raises.
\* After the other's commit the primary key rejects the row.
InsertRow(p, version, ms) ==
    LET call == calls[p]
        other == calls[Other(p)]
        migration == call.entry
        row == [ version |-> version, name |-> migration.name,
                 checksum |-> migration.checksum,
                 applied_at |-> AppliedAt(ledger),
                 execution_time_ms |-> ms ]
        ins == LedgerInsert(ledger \cup other.tx_rows, row)
    IN /\ call.pc = "scripted"
       /\ ~ (adapter = "postgres" /\ ~ ins.ok /\ other.pc = "inserted")
       /\ IF ~ ins.ok
             THEN Step(p, Done(call, ExecutionFailure(version)),
                       ledger, schema)
          ELSE Step(p, [call EXCEPT !.pc = "inserted", !.tx_rows = {row}],
                    ledger, schema)

\* conn.commit() and the return of the success
Commit(p, version, ms) ==
    LET call == calls[p]
        migration == call.entry
    IN /\ call.pc = "inserted"
       /\ Step(p, Done(call, [success |-> TRUE, version |-> version,
                              name |-> migration.name,
                              execution_time_ms |-> ms]),
               ledger \cup call.tx_rows,
               IF adapter = "postgres" THEN call.tx_schema ELSE schema)

(* ------------------- create_migration, step by step ------------------- *)

\* a step of caller p's create_migration that leaves the database alone
FileStep(p, to, ups, downs) ==
    /\ calls' = [calls EXCEPT ![p] = to]
    /\ upFiles' = ups
    /\ downFiles' = downs
    /\ UNCHANGED <<adapter, runtime, ledger, schema, last, created,
                   appliedOk, snap, connects>>

\* create_migration(name, up_sql, down_sql) up to the names of its files:
\* the scan of the catalog, the next version, the sanitized name
ScanForVersion(p, name, up_sql, down_sql) ==
    LET version == NextVersion(GetAvailableMigrations(upFiles))
    IN /\ calls[p].pc = "idle"
       /\ FileStep(p, [calls[p] EXCEPT
                          !.pc = "scanned",
                          !.args = <<name, up_sql, down_sql>>,
                          !.version = version,
                          !.stem = StemOf(version, SafeName(name))],
                   upFiles, downFiles)

\* open(up_path, "w") and the writes to the up-file
WriteUp(p) ==
    LET call == calls[p]
    IN /\ call.pc = "scanned"
       /\ FileStep(p, [call EXCEPT !.pc = "up_written"],
                   WriteFile(upFiles, call.stem,
                             UpContent(call.stem, call.args[1], call.args[2])),
                   downFiles)

\* the down-file, if down_sql is given, and the return of the result
WriteDownAndReturn(p) ==
    LET call == calls[p]
        down_sql == call.args[3]
    IN /\ call.pc = "up_written"
       /\ FileStep(p, [call EXCEPT
                          !.pc = "done",
                          !.ret = [ success |-> TRUE,
                                    version |-> call.version,
                                    name |-> SafeName(call.args[1]),
                                    up_file |-> call.stem,
                                    down_file |-> IF down_sql # <<>>
                                                     THEN call.stem
                                                  ELSE None ]],
                   upFiles,
                   IF down_sql # <<>>
                      THEN WriteFile(downFiles, call.stem,
                                     DownContent(call.stem, down_sql))
                   ELSE downFiles)

\* db.execute_script(cursor, script) on the MySQL adapter
ExecuteScriptCall ==
    LET out == MySQLExecuteScript(calls.script, schema)
    IN /\ calls.pc = "idle"
       /\ calls' = [calls EXCEPT !.pc = "done", !.raised = out.raised,
                                 !.executed = out.executed]
       /\ schema' = out.schema
       /\ UNCHANGED <<adapter, runtime, upFiles, downFiles, ledger, last,
                      created, appliedOk, snap, connects>>

(* -------------------------- the specifications ------------------------ *)

\* the steps of a call at which the driver can fail: a dry run never
\* gets past the read of the ledger
FaultsOf(dry_run) == IF dry_run THEN {"none", "read"} ELSE Faults

\* the calls of the engine, with a driver that may fail at any step
Next ==
    \/ \E v \in VersionInputs, d \in BOOLEAN, ms \in ExecutionTimes :
          \E f \in FaultsOf(d) : Apply(v, d, f, ms)
    \/ \E v \in VersionInputs, d \in BOOLEAN :
          \E f \in FaultsOf(d) : Rollback(v, d, f)
    \/ \E f \in {"none", "read"} : Status(f)
    \/ \E a \in Authored : CreateMigration(a[1], a[2], a[3])

\* the calls of the engine and the tools of the server
NextTools ==
    \/ \E v \in VersionInputs, d \in BOOLEAN, ms \in ExecutionTimes :
          \E f \in FaultsOf(d) : Apply(v, d, f, ms)
    \/ \E v \in VersionInputs, d \in BOOLEAN :
          \E f \in FaultsOf(d) : Rollback(v, d, f)
    \/ \E f \in {"none", "read"} : Status(f)
    \/ \E a \in Authored : CreateMigration(a[1], a[2], a[3])
    \/ \E f \in Faults \cup {"status"} : RollbackLast(f)
    \/ \E d \in BOOLEAN, ms \in ExecutionTimes :
          \/ ApplyAllPending(d, 0, "none", ms)
          \/ ApplyAllPending(d, 0, "status", ms)
          \/ \E k \in 1..Cardinality(DOMAIN upFiles) :
                \E f \in FaultsOf(d) \ {"none"} : ApplyAllPending(d, k, f, ms)
    \/ \E f \in {"none", "read"} : CheckDrift(f)
    \/ \E f \in {"none", "read"} : ListPending(f)
    \/ \E v \in VersionInputs \cup DOMAIN upFiles, dir \in {"up", "down"} :
          ReadMigrationSql(v, dir)

\* the engine's calls on migrations
NextPreview ==
    \/ \E v \in VersionInputs, d \in BOOLEAN, ms \in ExecutionTimes :
          \E f \in FaultsOf(d) : Apply(v, d, f, ms)
    \/ \E v \in VersionInputs, d \in BOOLEAN :
          \E f \in FaultsOf(d) : Rollback(v, d, f)

\* apply and check_drift while others edit the up-files, write and delete
\* the down-files and rename the migrations
NextFiles ==
    \/ \E v \in VersionInputs, ms \in ExecutionTimes : Apply(v, FALSE, "none", ms)
    \/ CheckDrift("none")
    \/ \E s \in DOMAIN upFiles : EditUpScript(s, <<Create("t1")>>)
    \/ \E s \in DOMAIN upFiles, d \in DownScripts : WriteDownFile(s, d)
    \/ \E s \in DOMAIN downFiles : RemoveDownFile(s)
    \/ \E s \in DOMAIN upFiles, n \in NewNames : RenameMigration(s, n)

\* two callers apply the same version, their steps in any order
NextRace ==
    \E p \in Callers, ms \in ExecutionTimes :
        \/ Observe(p, VersionOf(SeedStem))
        \/ RunScript(p, VersionOf(SeedStem))
        \/ InsertRow(p, VersionOf(SeedStem), ms)
        \/ Commit(p, VersionOf(SeedStem), ms)

\* two callers author a migration each, their steps in any order
NextCreate ==
    \E p \in Callers :
        \/ \E a \in Authored : ScanForVersion(p, a[1], a[2], a[3])
        \/ WriteUp(p)
        \/ WriteDownAndReturn(p)

\* the steps of apply_migration while somebody edits the up-file
NextEdit ==
    \/ NextRace
    \/ \E u \in EditScripts : EditUpScript(SeedStem, u)

\* the calls, the read of the ledger failing or not, while others edit and
\* delete the files of the migrations directory
NextEnv ==
    \/ \E v \in VersionInputs, d \in BOOLEAN, ms \in ExecutionTimes :
          \E f \in {"none", "read"} : Apply(v, d, f, ms)
    \/ \E v \in VersionInputs, d \in BOOLEAN :
          \E f \in {"none", "read"} : Rollback(v, d, f)
    \/ Status("none")
    \/ \E a \in Authored : CreateMigration(a[1], a[2], a[3])
    \/ RollbackLast("none")
    \/ CheckDrift("none")
    \/ \E s \in DOMAIN upFiles, u \in EditScripts : EditUpScript(s, u)
    \/ \E s \in DOMAIN upFiles : RemoveUpFile(s)
    \/ \E s \in DOMAIN downFiles : RemoveDownFile(s)

\* the tools of the server that are handed to the dispatcher with a result
\* shape, the driver failing to connect or not
NextServer ==
    \/ \E v \in VersionInputs, d \in BOOLEAN, ms \in ExecutionTimes :
          Apply(v, d, "none", ms)
    \/ \E v \in VersionInputs, d \in BOOLEAN : Rollback(v, d, "none")
    \/ \E a \in Authored : CreateMigration(a[1], a[2], a[3])
    \/ RollbackLast("none")
    \/ \E d \in BOOLEAN, ms \in ExecutionTimes :
          ApplyAllPending(d, 0, "none", ms)
    \/ CheckDrift("none")
    \/ \E q \in Queries, f \in {"none", "connect"} : RunQuery(q, f)
    \/ \E f \in {"none", "connect"} : TestConnection(f)
    \/ \E t \in {"", "t1", "t9"}, f \in {"none", "connect"} :
          InspectSchema(t, f)

\* the engine on each of the three backends, from an empty directory
Spec == Init /\ [][Next]_vars

\* the engine and the server's tools on the embedded backend
SpecTools == InitEnv /\ [][NextTools]_vars

\* the engine while the migration files change under it
SpecEnv == InitEnv /\ [][NextEnv]_vars

\* the engine and the tools when versions grow from three digits to four
SpecWide == InitWide /\ [][NextTools]_vars

\* the server's tools with a result shape, on each of the three backends
SpecServer == Init /\ [][NextServer]_vars

\* the engine and the tools, authoring from the first version and from
\* the last of three digits
SpecAuthor == InitAuthor /\ [][NextTools]_vars

\* the engine's calls on scripts about as long as a preview
SpecPreview == InitPreview /\ [][NextPreview]_vars

\* the engine on a directory whose files are edited and renamed
SpecFiles == InitFiles /\ [][NextFiles]_vars

\* the server's tools on each backend and each interpreter
SpecConn == InitConn /\ [][NextServer]_vars

\* two apply_migration calls of one version side by side
SpecRace == InitRace /\ [][NextRace]_vars

\* apply_migration step by step on a file that is edited meanwhile
SpecEdit == InitRace /\ [][NextEdit]_vars

\* two create_migration calls side by side
SpecCreate == InitCreate /\ [][NextCreate]_vars

\* execute_script of the MySQL adapter on the script texts
SpecScript == InitScript /\ [][ExecuteScriptCall]_vars

(* ------------------------------ the claims ---------------------------- *)

\* the versions that have a row in a ledger
LedgerVersions(rows) == { r.version : r \in rows }

\* the call that led to "l" was op, it was no dry run and it reported success
Succeeded(l, op) ==
    l.op = op /\ ~ l.raised /\ ~ l.dry_run /\ l.ret.success

\* the call that led to "l" was op and it returned the failure "error"
Failed(l, op, error) ==
    l.op = op /\ ~ l.raised /\ ~ l.ret.success /\ l.ret.error = error

\* what of a ledger row is never rewritten
Identity(r) == <<r.version, r.name, r.checksum>>

\* C1: right after a successful apply_migration(V), get_status lists V in
\* "applied" and not in "pending", and when V is numerically the highest
\* version of the ledger, current_version is V.
C1_ApplyShowsAppliedAndCurrent ==
    Succeeded(last, "apply") =>
        LET st == GetStatus(upFiles, ledger)
            V == last.version
        IN /\ V \in VersionsOf(st.applied)
           /\ V \notin VersionsOf(st.pending)
           /\ (\A r \in ledger : ParseInt(r.version) <= ParseInt(V))
                 => st.current_version = V

HasDownScript(v) ==
    EntryFor(GetAvailableMigrations(upFiles), v).path \in DOMAIN downFiles

C4_RollbackWithoutDownScript ==
    [][ ( /\ last'.op = "rollback"
          /\ last'.version \in VersionsOf(GetAvailableMigrations(upFiles))
          /\ last'.version \in LedgerVersions(ledger)
          /\ ~ HasDownScript(last'.version) ) =>
            /\ Failed(last', "rollback", "rollback file not found")
            /\ ~ last'.scriptRan
            /\ ledger' = ledger
            /\ last'.version \in LedgerVersions(ledger') ]_vars

\* C4's case: the rollback of an applied version without down-script is refused
C4_Witness ==
    /\ Failed(last, "rollback", "rollback file not found")
    /\ ~ last.dry_run
    /\ last.version \in LedgerVersions(ledger)

\* the drift of a directory and a ledger, said without the engine: the
\* catalog versions with a ledger row whose recorded checksum is not the
\* checksum of what the up-file holds now
DriftSet ==
    { [ version  |-> r.version,
        expected |-> r.checksum,
        actual   |-> CalculateChecksum(upFiles[s]) ] :
      <<r, s>> \in { p \in ledger \X DOMAIN upFiles :
                       /\ VersionOf(p[2]) = p[1].version
                       /\ p[1].checksum # CalculateChecksum(upFiles[p[2]]) } }

\* the elements of a list
Range(list) == { list[i] : i \in 1..Len(list) }

\* C5: the drift list of get_status and of check_drift holds exactly the
\* catalog versions with a ledger row whose checksum differs from the one of
\* the up-file's present content, each once, "expected" the ledger's checksum
\* and "actual" the file's; check_drift says drift_detected exactly when the
\* list is not empty.
C5_DriftIsChecksumMismatch ==
    /\ (last.op = "status" /\ ~ last.raised) =>
          /\ Range(last.ret.drift_detected) = DriftSet
          /\ Len(last.ret.drift_detected) = Cardinality(DriftSet)
    /\ (last.op = "check_drift" /\ ~ last.raised) =>
          /\ last.ret.drift_detected = (DriftSet # {})
          /\ last.ret.drift_detected =>
                /\ Range(last.ret.details) = DriftSet
                /\ Len(last.ret.details) = Cardinality(DriftSet)

\* C5's case: check_drift reports the edited up-file of an applied version
C5_Witness ==
    /\ last.op = "check_drift" /\ ~ last.raised
    /\ last.ret.drift_detected
    /\ Len(last.ret.details) = 1

\* C6: a dry run of apply_migration or of rollback_migration leaves the
\* ledger, the schema and the files of the directory as they were.
C6_DryRunChangesNothing ==
    [][ (last'.op \in {"apply", "rollback"} /\ last'.dry_run) =>
            /\ ledger' = ledger /\ schema' = schema
            /\ upFiles' = upFiles /\ downFiles' = downFiles
            /\ ~ last'.scriptRan ]_vars

\* C6's case: the dry run of a pending migration returns its preview
C6_Witness ==
    /\ last.op = "apply" /\ last.dry_run /\ ~ last.raised
    /\ last.ret.success
    /\ last.version \notin LedgerVersions(ledger)

\* the versions apply_all_pending reports as applied for good
AppliedByAll(l) ==
    IF l.raised \/ l.dry_run THEN {}
    ELSE { l.ret.results[j].version :
             j \in { i \in 1..Len(l.ret.results) : l.ret.results[i].success } }

\* C7: a successful apply_migration(V) that is no dry run adds the row of V
\* and no other, a successful rollback (rollback_migration(V), or
\* rollback_last choosing V) removes the row of V and no other,
\* apply_all_pending adds the rows of the applies it made, every other call
\* leaves the set of rows as it was, and no call rewrites the version, the
\* name or the checksum of a row.
C7_LedgerChangesOnlyByApplyAndRollback ==
    [][ LET before == LedgerVersions(ledger)
            after == LedgerVersions(ledger')
            V == last'.version
        IN /\ IF Succeeded(last', "apply")
                 THEN /\ V \notin before
                      /\ after = before \cup {V}
                      /\ Cardinality(ledger') = Cardinality(ledger) + 1
              ELSE IF \/ Succeeded(last', "rollback")
                      \/ Succeeded(last', "rollback_last")
                 THEN /\ V \in before
                      /\ after = before \ {V}
                      /\ Cardinality(ledger') = Cardinality(ledger) - 1
              ELSE IF last'.op = "apply_all"
                 THEN /\ before \subseteq after
                      /\ after \ before \subseteq
                            VersionsOf(GetStatus(upFiles, ledger).pending)
                      /\ ~ last'.raised =>
                            after \ before = AppliedByAll(last')
                      /\ last'.dry_run => after = before
              ELSE /\ after = before
                   /\ Cardinality(ledger') = Cardinality(ledger)
           /\ \A r \in ledger, q \in ledger' :
                 r.version = q.version => Identity(r) = Identity(q) ]_vars

\* C7's case: a rollback has removed one of two rows
C7_Witness ==
    /\ \/ Succeeded(last, "rollback")
       \/ Succeeded(last, "rollback_last")
    /\ Cardinality(ledger) = 1

\* C8: no two entries of the catalog have the same version and no two rows
\* of the ledger have the same version.
C8_VersionsAreUnique ==
    LET catalog == GetAvailableMigrations(upFiles)
    IN /\ \A i, j \in 1..Len(catalog) :
             catalog[i].version = catalog[j].version => i = j
       /\ \A r, q \in ledger : r.version = q.version => r = q

\* C8's case: two migrations created, both applied
C8_Witness ==
    /\ Len(GetAvailableMigrations(upFiles)) = 2
    /\ Cardinality(ledger) = 2

\* the full versions of a list of catalog entries
FullVersions(list) == [i \in 1..Len(list) |-> list[i].full_version]

\* "001", "add_users" and "001_add_users"
V001 == <<48, 48, 49>>
Add_Users == <<97, 100, 100, 95, 117, 115, 101, 114, 115>>
Stem001AddUsers == StemOf(V001, Add_Users)

\* C9: apply_migration(V) and then rollback_migration(V), both successful,
\* leave the rows of the ledger and pending, applied and current_version of
\* get_status as they were before the apply; and from an empty directory,
\* create_migration("add users") returns version "001" and name "add_users",
\* after its apply applied is ["001_add_users"] and pending is empty, after
\* its rollback pending is ["001_add_users"] and applied is empty.
C9_ApplyThenRollbackRestores ==
    LET st == GetStatus(upFiles, ledger)
    IN /\ snap.kind = "undone" =>
             /\ { Identity(r) : r \in ledger }
                   = { Identity(r) : r \in snap.ledger }
             /\ Partition(upFiles, ledger) = snap.status
       /\ ( /\ last.op = "create" /\ created = 1
            /\ upFiles[last.ret.up_file].hdr[3] = AddUsers ) =>
             /\ last.ret.version = V001
             /\ last.ret.name = Add_Users
             /\ last.ret.up_file = Stem001AddUsers
       /\ ( /\ DOMAIN upFiles = {Stem001AddUsers}
            /\ Succeeded(last, "apply") ) =>
             /\ FullVersions(st.applied) = <<Stem001AddUsers>>
             /\ st.pending = <<>>
       /\ ( /\ DOMAIN upFiles = {Stem001AddUsers}
            /\ Succeeded(last, "rollback") ) =>
             /\ FullVersions(st.pending) = <<Stem001AddUsers>>
             /\ st.applied = <<>>

\* C9's case: the second of two applied migrations has been rolled back
C9_Witness ==
    /\ snap.kind = "undone"
    /\ Succeeded(last, "rollback")
    /\ Cardinality(ledger) = 1

\* C10: apply_migration, rollback_migration, get_status, apply_all_pending
\* and rollback_last never let a driver error reach their caller as an
\* exception.
C10_NoDriverExceptionEscapes ==
    last.op \in {"apply", "rollback", "status", "apply_all", "rollback_last"}
        => ~ last.raised

\* the operations that are handed to the dispatcher with a result shape
ShapedOps ==
    { "test_connection", "apply", "apply_all", "rollback", "rollback_last",
      "create", "inspect_schema", "run_query", "check_drift" }

\* C11: every result of test_connection, apply_migration, apply_all_pending,
\* rollback_migration, rollback_last, create_migration, inspect_schema,
\* run_query and check_drift carries a "success" flag, and an "error" string
\* when the flag is false.
C11_EveryResultHasSuccessFlag ==
    (last.op \in ShapedOps /\ ~ last.raised) =>
        /\ "success" \in DOMAIN last.ret
        /\ ~ last.ret.success => "error" \in DOMAIN last.ret

\* a text holds one of the seven keywords, whatever the casing of its letters
HoldsKeyword(text) ==
    \E k \in 1..Len(Dangerous) :
        \E i \in 0..(Len(text) - Len(Dangerous[k])) :
            \A j \in 1..Len(Dangerous[k]) :
                text[i + j] \in {Dangerous[k][j], Dangerous[k][j] + 32}

\* C12: run_query on a text that holds, in any casing, one of DROP, DELETE,
\* UPDATE, INSERT, ALTER, TRUNCATE, CREATE returns the safety-block error,
\* opens no connection, executes nothing and changes nothing; on every other
\* text it opens a connection and, the connection there, executes the text.
C12_DangerousQueriesAreBlocked ==
    [][ last'.op = "run_query" =>
          IF HoldsKeyword(last'.version)
             THEN /\ "error" \in DOMAIN last'.ret
                  /\ last'.ret.error = "safety block"
                  /\ connects' = 0
                  /\ ~ last'.scriptRan
                  /\ ledger' = ledger /\ schema' = schema
          ELSE /\ connects' = 1
               /\ \/ last'.scriptRan
                  \/ last'.ret = [error |-> "driver error"] ]_vars

\* C12's case: "drop table t1", in lower case, has been blocked
C12_Witness ==
    /\ last.op = "run_query"
    /\ last.version = DropLower
    /\ last.ret = [error |-> "safety block", keyword |-> Dangerous[1]]

\* C13: a call of run_query leaves the ledger and the schema of the target
\* database as they were.
C13_RunQueryIsReadOnly ==
    [][ last'.op = "run_query" =>
            ledger' = ledger /\ schema' = schema ]_vars

\* C14: in an apply_all_pending that is no dry run, nothing is attempted
\* after the first apply_migration that returns a failure: the failed result
\* is the last one, every migration behind it in the pending list is still
\* pending when the call returns, every migration that succeeded before it
\* has its row in the ledger, and without a failure all are attempted.
C14_ApplyAllStopsAtFirstFailure ==
    [][ (last'.op = "apply_all" /\ ~ last'.raised /\ ~ last'.dry_run) =>
          LET p == GetStatus(upFiles, ledger).pending
              r == last'.ret.results
              still == VersionsOf(GetStatus(upFiles', ledger').pending)
          IN /\ Len(r) <= Len(p)
             /\ \A i \in 1..Len(r) : ~ r[i].success => i = Len(r)
             /\ \A i \in 1..Len(p) : i > Len(r) => p[i].version \in still
             /\ \A i \in 1..Len(r) :
                   r[i].success => p[i].version \in LedgerVersions(ledger')
             /\ (\A i \in 1..Len(r) : r[i].success) => Len(r) = Len(p) ]_vars

\* C14's case: of two pending migrations the first has failed, the second has
\* not been attempted and is pending
C14_Witness ==
    /\ last.op = "apply_all" /\ ~ last.raised /\ ~ last.dry_run
    /\ Len(last.ret.results) = 1
    /\ ~ last.ret.results[1].success
    /\ Len(GetStatus(upFiles, ledger).pending) = 2

\* C15: in the result of apply_all_pending "total" is the number of entries
\* of "results", the migrations attempted, and "applied" the number of those
\* with success true.
C15_TotalCountsAttempted ==
    (last.op = "apply_all" /\ ~ last.raised) =>
        /\ last.ret.total = Len(last.ret.results)
        /\ last.ret.applied =
              Cardinality({ i \in 1..Len(last.ret.results) :
                              last.ret.results[i].success })

\* the versions of a list of catalog entries grow as numbers
Ascending(list) ==
    \A i, j \in 1..Len(list) :
        i < j => ParseInt(list[i].version) < ParseInt(list[j].version)

\* C16: get_available_migrations, the pending and the applied listing of
\* get_status, and the results of apply_all_pending are in ascending numeric
\* order of version, versions of more than three digits included.
C16_ListingsAscendNumerically ==
    LET st == GetStatus(upFiles, ledger)
    IN /\ Ascending(GetAvailableMigrations(upFiles))
       /\ Ascending(st.pending)
       /\ Ascending(st.applied)
       /\ (last.op = "apply_all" /\ ~ last.raised) =>
             Ascending(last.ret.results)

\* C17: rollback_last, when the ledger has rows, rolls back the numerically
\* highest applied version, and it returns the failure "No migrations to
\* rollback", changing nothing, exactly when the ledger is empty.
C17_RollbackLastTakesHighestVersion ==
    [][ (last'.op = "rollback_last" /\ ~ last'.raised) =>
          IF ledger = {}
             THEN /\ Failed(last', "rollback_last", "no migrations to rollback")
                  /\ ledger' = ledger /\ schema' = schema
          ELSE /\ ~ Failed(last', "rollback_last", "no migrations to rollback")
               /\ last'.version \in LedgerVersions(ledger)
               /\ \A r \in ledger :
                     ParseInt(r.version) <= ParseInt(last'.version) ]_vars

\* C18: rollback_last targets, of the migrations applied now, the one whose
\* successful apply was the last to happen.
C18_RollbackLastTakesMostRecent ==
    [][ (last'.op = "rollback_last" /\ ~ last'.raised /\ ledger # {}) =>
          \E r \in ledger :
              /\ r.version = last'.version
              /\ \A q \in ledger : q.applied_at <= r.applied_at ]_vars

\* v is the decimal numeral of n, zero-padded to three digits and no more
IsVersionOf(v, n) ==
    /\ \A i \in 1..Len(v) : v[i] \in 48..57
    /\ ParseInt(v) = n
    /\ Len(v) >= 3
    /\ Len(v) > 3 => v[1] # 48

\* C19: create_migration returns "001" for an empty catalog and otherwise
\* the highest integer version of the catalog plus one, zero-padded to at
\* least three digits; the version is none of the catalog's, and the call
\* writes a new up-file and leaves every up-file there was as it was.
C19_CreateReturnsNextVersion ==
    [][ last'.op = "create" =>
          LET catalog == GetAvailableMigrations(upFiles)
              ints == { ParseInt(catalog[i].version) : i \in 1..Len(catalog) }
              highest == CHOOSE n \in ints : \A k \in ints : k <= n
              v == last'.ret.version
          IN /\ IF catalog = <<>> THEN v = <<48, 48, 49>>
                ELSE IsVersionOf(v, highest + 1)
             /\ v \notin VersionsOf(catalog)
             /\ last'.ret.up_file \notin DOMAIN upFiles
             /\ DOMAIN upFiles' = DOMAIN upFiles \cup {last'.ret.up_file}
             /\ \A f \in DOMAIN upFiles : upFiles'[f] = upFiles[f] ]_vars

\* C19's case: version "1000" has been created behind "999"
C19_Witness ==
    /\ last.op = "create"
    /\ last.ret.version = <<49, 48, 48, 48>>
    /\ SeedStem \in DOMAIN upFiles

\* C20: create_migration opens no database connection and leaves the ledger
\* and the schema as they were; it writes the new up-file, the new down-file
\* exactly when the down SQL given is not empty, and no other file.
C20_CreateTouchesOnlyFiles ==
    [][ last'.op = "create" =>
          LET stem == last'.ret.up_file
              given == { a \in Authored :
                           /\ a[1] = upFiles'[stem].hdr[3]
                           /\ a[2] = upFiles'[stem].sql }
          IN /\ connects' = 0
             /\ ledger' = ledger /\ schema' = schema
             /\ DOMAIN upFiles' = DOMAIN upFiles \cup {stem}
             /\ \A f \in DOMAIN upFiles \ {stem} : upFiles'[f] = upFiles[f]
             /\ \A f \in DOMAIN downFiles \ {stem} :
                   f \in DOMAIN downFiles' /\ downFiles'[f] = downFiles[f]
             /\ DOMAIN downFiles' \subseteq DOMAIN downFiles \cup {stem}
             /\ \A a \in given :
                   IF a[3] # <<>>
                      THEN /\ stem \in DOMAIN downFiles'
                           /\ downFiles'[stem].sql = a[3]
                           /\ last'.ret.down_file = stem
                   ELSE /\ stem \notin DOMAIN downFiles'
                        /\ last'.ret.down_file = None ]_vars

\* C20's case: a migration without down SQL is created while the ledger has
\* a row
C20_Witness ==
    /\ last.op = "create"
    /\ last.ret.down_file = None
    /\ last.ret.up_file \notin DOMAIN downFiles
    /\ Cardinality(ledger) = 1

\* C21: when an apply_migration(V) that is no dry run has returned and the
\* ledger has no row for V, nothing of V's up-script is committed in the
\* target database.
C21_ScriptAndRowCommitTogether ==
    [][ ( /\ last'.op = "apply" /\ ~ last'.dry_run /\ ~ last'.raised
          /\ last'.version \notin LedgerVersions(ledger') ) =>
            schema' = schema ]_vars

\* C25: an apply_migration(V) that is no dry run and got to its script
\* returns, when the script, the insert or the commit raised, a failure with
\* the version and the error, and the ledger has no row for V; it returns
\* success only when the ledger has the row of V with the name and the
\* checksum of the catalog.
C25_ApplyFailureLeavesNoRow ==
    [][ (last'.op = "apply" /\ ~ last'.dry_run /\ last'.scriptRan) =>
          LET V == last'.version
              entry == EntryFor(GetAvailableMigrations(upFiles), V)
          IN /\ ~ last'.raised
             /\ IF last'.ret.success
                   THEN \E r \in ledger' :
                           /\ r.version = V
                           /\ r.name = entry.name
                           /\ r.checksum = entry.checksum
                ELSE /\ DOMAIN last'.ret = {"success", "version", "error"}
                     /\ last'.ret.version = V
                     /\ V \notin LedgerVersions(ledger') ]_vars

\* C25's case: the commit of an apply has failed
C25_Witness ==
    /\ last.op = "apply" /\ ~ last.dry_run /\ ~ last.raised
    /\ last.scriptRan
    /\ ~ last.ret.success
    /\ last.version \notin LedgerVersions(ledger)
    /\ ledger # {}

\* C26: a rollback_migration(V) that is no dry run and got to its script
\* returns, when the script raised, a failure with the version and the
\* error, and the row of V is still in the ledger; it returns success only
\* when the row of V is gone.
C26_RollbackFailureKeepsRow ==
    [][ (last'.op = "rollback" /\ ~ last'.dry_run /\ last'.scriptRan) =>
          LET V == last'.version
          IN /\ ~ last'.raised
             /\ IF last'.ret.success
                   THEN V \notin LedgerVersions(ledger')
                ELSE /\ DOMAIN last'.ret = {"success", "version", "error"}
                     /\ last'.ret.version = V
                     /\ ledger' = ledger
                     /\ V \in LedgerVersions(ledger') ]_vars

\* C26's case: the down-script of an applied version has failed
C26_Witness ==
    /\ last.op = "rollback" /\ ~ last.dry_run /\ ~ last.raised
    /\ last.scriptRan
    /\ ~ last.ret.success
    /\ last.version \in LedgerVersions(ledger)

\* C27: apply_migration(V) and rollback_migration(V) of a version V without
\* up-file in the catalog return the "not found" failure and change neither
\* ledger, schema nor files, also when the ledger holds a row for V.
C27_NotFoundComesFirst ==
    [][ ( /\ last'.op \in {"apply", "rollback"}
          /\ last'.version \notin VersionsOf(GetAvailableMigrations(upFiles)) )
          => /\ Failed(last', last'.op, "not found")
             /\ ~ last'.scriptRan
             /\ ledger' = ledger /\ schema' = schema
             /\ upFiles' = upFiles /\ downFiles' = downFiles ]_vars

\* C27's case: the apply of a version whose row outlived its up-file
C27_Witness ==
    /\ Failed(last, "apply", "not found")
    /\ last.version \in LedgerVersions(ledger)

\* C28: apply_migration and rollback_migration leave every migration file as
\* it was; after a successful rollback of V the up-file and the down-file of
\* V are there and V is pending again.
C28_FilesAreNeverTouched ==
    [][ last'.op \in {"apply", "rollback"} =>
          /\ upFiles' = upFiles /\ downFiles' = downFiles
          /\ Succeeded(last', "rollback") =>
                LET pending == GetStatus(upFiles', ledger').pending
                    V == last'.version
                IN /\ V \in VersionsOf(pending)
                   /\ EntryFor(pending, V).path \in DOMAIN upFiles'
                   /\ EntryFor(pending, V).path \in DOMAIN downFiles' ]_vars

\* C28's case: a rollback has succeeded and its version is pending
C28_Witness ==
    /\ Succeeded(last, "rollback")
    /\ last.version \in VersionsOf(GetStatus(upFiles, ledger).pending)
    /\ HasDownScript(last.version)

C30_PreviewIsFirst500Characters ==
    [][ (last'.op \in {"apply", "rollback"} /\ last'.dry_run
         /\ ~ last'.raised /\ last'.ret.success) =>
          LET files == IF last'.op = "apply" THEN upFiles ELSE downFiles
              path == EntryFor(GetAvailableMigrations(upFiles),
                               last'.version).path
              script == Text(files[path])
              n == Len(script)
              preview == last'.ret.sql_preview
          IN /\ n <= 500 => preview = script
             /\ n > 500 =>
                   /\ Len(preview) = 503
                   /\ \A i \in 1..500 : preview[i] = script[i]
                   /\ \A i \in 501..503 : preview[i] = 46
             /\ Len(preview) <= 503 ]_vars

\* C30's case: the dry run of a rollback has cut a down-script of more than
\* 500 characters
C30_Witness ==
    /\ last.op = "rollback" /\ last.dry_run /\ ~ last.raised
    /\ last.ret.success
    /\ Len(last.ret.sql_preview) = 503
    /\ Len(Text(downFiles[SeedStem])) > 501

\* the checksums of the catalog, by version
ChecksumsOf(files) ==
    LET available == GetAvailableMigrations(files)
    IN { <<available[i].version, available[i].checksum>> :
            i \in 1..Len(available) }

\* C24: two up-files of the same content have the same checksum, whatever
\* their names; writing (creating or editing) or deleting a down-file and
\* renaming a migration leave the checksum of every catalog version and the
\* drift list as they were.
C24_ChecksumIsOfUpContentOnly ==
    [][ /\ \A i, j \in 1..Len(GetAvailableMigrations(upFiles')) :
             LET available == GetAvailableMigrations(upFiles')
             IN Text(upFiles'[available[i].path])
                    = Text(upFiles'[available[j].path])
                  => available[i].checksum = available[j].checksum
        /\ last'.op \in {"write_down", "remove_down", "rename"} =>
             /\ ChecksumsOf(upFiles') = ChecksumsOf(upFiles)
             /\ GetStatus(upFiles', ledger').drift_detected
                  = GetStatus(upFiles, ledger).drift_detected ]_vars

\* C24's case: a migration that is applied and drifted has been renamed,
\* and another up-file has the same content
C24_Witness ==
    /\ last.op = "rename"
    /\ \E d \in DriftSet : d.version = last.version
    /\ \E s, t \in DOMAIN upFiles : s # t /\ upFiles[s] = upFiles[t]

\* C22: when a call has returned or raised, every connection it opened is
\* closed, whatever the backend.
C22_ConnectionsAreReleased ==
    Held(adapter, runtime, last.raised, connects) = 0

\* the callers whose call has returned with a success
Winners == { p \in Callers : calls[p].pc = "done" /\ calls[p].ret.success }

\* C23: when two apply_migration(V) calls that both saw V pending have
\* returned, one of them returned a success and the other a failure that
\* carries the version and the error, and the ledger has exactly one row
\* for V; at no time have both returned a success.
C23_OneOfTwoAppliesWins ==
    /\ Cardinality(Winners) <= 1
    /\ (\A p \in Callers : calls[p].pc = "done"
                             /\ calls[p].observed = "pending") =>
          /\ Cardinality(Winners) = 1
          /\ \A p \in Callers \ Winners :
                /\ DOMAIN calls[p].ret = {"success", "version", "error"}
                /\ calls[p].ret.version = VersionOf(SeedStem)
          /\ Cardinality({ r \in ledger : r.version = VersionOf(SeedStem) }) = 1

\* C23's case: both callers saw the version pending and ran its script, and
\* both have returned
C23_Witness ==
    /\ \A p \in Callers : calls[p].pc = "done" /\ calls[p].observed = "pending"
    /\ upFiles[SeedStem].sql = <<Filler(4)>>
    /\ Winners # {}

\* how many times e is in list
Count(list, e) == Cardinality({ i \in 1..Len(list) : list[i] = e })

\* the entries of part are in the order they have in whole
KeepsOrder(part, whole) ==
    \A i, j \in 1..Len(part) :
        i < j => \E k, l \in 1..Len(whole) :
                    k < l /\ whole[k] = part[i] /\ whole[l] = part[j]

\* C32: in a result of get_status every catalog entry is in exactly one of
\* "pending" and "applied", in "applied" exactly when the ledger has a row of
\* its version; both lists keep the order of the catalog, and every drift
\* entry has the version of an entry of "applied".
C32_StatusPartitionsCatalog ==
    (last.op = "status" /\ ~ last.raised) =>
        LET available == GetAvailableMigrations(upFiles)
            st == last.ret
        IN /\ \A i \in 1..Len(available) :
                 /\ Count(st.pending, available[i])
                      + Count(st.applied, available[i]) = 1
                 /\ Count(st.applied, available[i]) = 1
                      <=> available[i].version \in LedgerVersions(ledger)
           /\ Range(st.pending) \cup Range(st.applied) \subseteq Range(available)
           /\ KeepsOrder(st.pending, available)
           /\ KeepsOrder(st.applied, available)
           /\ \A d \in Range(st.drift_detected) :
                 d.version \in VersionsOf(st.applied)

\* C32's case: a status of a catalog with pending and applied entries, one
\* of them drifted
C32_Witness ==
    /\ last.op = "status" /\ ~ last.raised
    /\ Len(last.ret.pending) > 0
    /\ Len(last.ret.applied) > 0
    /\ Len(last.ret.drift_detected) > 0

\* C33: no catalog version is applied while a version before it in the
\* catalog is pending.
C33_AppliedIsDownwardClosed ==
    LET available == GetAvailableMigrations(upFiles)
    IN \A i, j \in 1..Len(available) :
          (i < j /\ available[j].version \in LedgerVersions(ledger)) =>
              available[i].version \in LedgerVersions(ledger)

\* C34: rollback_last answers that there is nothing to roll back exactly
\* when the current_version of get_status is None, and otherwise the version
\* it hands to rollback_migration is that current_version.
C34_RollbackLastTakesCurrentVersion ==
    [][ (last'.op = "rollback_last" /\ ~ last'.raised) =>
          LET current == GetStatus(upFiles, ledger).current_version
          IN IF current = None
                THEN Failed(last', "rollback_last", "no migrations to rollback")
             ELSE /\ ~ Failed(last', "rollback_last",
                              "no migrations to rollback")
                  /\ last'.version = current ]_vars

\* C35: the checksum a successful apply_migration(V) has written to the
\* ledger is the checksum of the content it read and executed.
C35_RecordedChecksumIsOfExecutedScript ==
    \A p \in Callers :
        (calls[p].pc = "done" /\ calls[p].ret.success) =>
            \E r \in ledger :
                /\ r.version = calls[p].entry.version
                /\ r.checksum = CalculateChecksum(calls[p].read)

\* C36: when two create_migration calls side by side have returned, their
\* versions differ, the up-file of each holds what its caller wrote, and no
\* two files of the catalog have the same version.
C36_ConcurrentCreatesGetDistinctVersions ==
    (\A p \in Callers : calls[p].pc = "done") =>
        /\ \A p, q \in Callers :
              p # q => calls[p].ret.version # calls[q].ret.version
        /\ \A p \in Callers :
              /\ calls[p].stem \in DOMAIN upFiles
              /\ upFiles[calls[p].stem]
                   = UpContent(calls[p].stem, calls[p].args[1],
                               calls[p].args[2])
        /\ \A s, t \in DOMAIN upFiles :
              s # t => VersionOf(s) # VersionOf(t)

\* C37: in every state both classes reach, the MigrationEngine of server.py
\* answers get_status, apply_migration and rollback_migration as the one of
\* engine.py does, with the same ledger and schema after the call, and a
\* create_migration of the one writes the files and returns the result of the
\* one of the other: side by side they stay in the same state. (The files
\* before a create_migration are the files after it without the new stem.)
C37_ServerEngineIsTheEngine ==
    /\ ServerGetStatus(upFiles, ledger) = GetStatus(upFiles, ledger)
    /\ \A v \in VersionInputs, d \in BOOLEAN, ms \in ExecutionTimes :
          \A f \in FaultsOf(d) :
             /\ ServerApplyMigration(adapter, upFiles, ledger, schema,
                                     v, d, f, ms)
                  = ApplyMigration(adapter, upFiles, ledger, schema,
                                   v, d, f, ms)
             /\ ServerRollbackMigration(adapter, upFiles, downFiles,
                                        ledger, schema, v, d, f)
                  = RollbackMigration(adapter, upFiles, downFiles,
                                      ledger, schema, v, d, f)
    /\ last.op = "create" =>
          \E a \in Authored :
             LET out == ServerCreateMigration(
                            DeleteFile(upFiles, last.ret.up_file),
                            DeleteFile(downFiles, last.ret.up_file),
                            a[1], a[2], a[3])
             IN /\ out.upFiles = upFiles
                /\ out.downFiles = downFiles
                /\ out.ret = last.ret

\* C37's case: both classes have authored two migrations and applied one,
\* so that their status has pending and applied entries
C37_Witness ==
    /\ Succeeded(last, "apply")
    /\ Len(ServerGetStatus(upFiles, ledger).pending) > 0
    /\ Len(ServerGetStatus(upFiles, ledger).applied) > 0
    /\ ServerGetStatus(upFiles, ledger).current_version = last.version

\* the sequences of texts without ";" that give text when joined with ";"
IsSplitOf(pieces, text) ==
    /\ Join(pieces, Semicolon) = text
    /\ \A i \in 1..Len(pieces) : \A k \in 1..Len(pieces[i]) :
          pieces[i][k] # Semicolon

\* trimmed is piece without the whitespace at its two ends
IsTrimOf(trimmed, piece) ==
    /\ trimmed # <<>> =>
          /\ trimmed[1] \notin Whitespace
          /\ trimmed[Len(trimmed)] \notin Whitespace
    /\ \E lo \in 0..Len(piece) :
          /\ lo + Len(trimmed) <= Len(piece)
          /\ SubSeq(piece, lo + 1, lo + Len(trimmed)) = trimmed
          /\ \A k \in (1..lo) \cup ((lo + Len(trimmed) + 1)..Len(piece)) :
                piece[k] \in Whitespace

\* the tables after the statements have run, one after the other
RECURSIVE TablesAfter(_, _)
TablesAfter(statements, sch) ==
    IF statements = <<>> THEN sch
    ELSE TablesAfter(Tail(statements),
                     RunStatements(<<Meaning(Head(statements))>>, sch).schema)

\* C31: execute_script of the MySQL adapter cuts the text at every ";", also
\* inside a string literal, trims the pieces and drops the empty ones, and
\* executes the others in their order up to the first that raises: the later
\* ones are not executed and what the earlier ones did stays.
C31_MySQLScriptIsSplitAtSemicolons ==
    calls.pc = "done" =>
            LET pieces == Split(calls.script, Semicolon)
                Kept(piece) == \E k \in 1..Len(piece) :
                                   piece[k] \notin Whitespace
                kept == SelectSeq(pieces, Kept)
                done == calls.executed
                Raises(i) == ~ RunStatements(<<Meaning(done[i])>>,
                                 TablesAfter(SubSeq(done, 1, i - 1), {})).ok
            IN /\ IsSplitOf(pieces, calls.script)
               /\ Len(done) <= Len(kept)
               /\ \A i \in 1..Len(done) : IsTrimOf(done[i], kept[i])
               /\ \A i \in 1..(Len(done) - 1) : ~ Raises(i)
               /\ calls.raised <=> (Len(done) > 0 /\ Raises(Len(done)))
               /\ ~ calls.raised => Len(done) = Len(kept)
               /\ schema = TablesAfter(
                     SubSeq(done, 1,
                            IF calls.raised THEN Len(done) - 1 ELSE Len(done)),
                     {})

\* C31's case: a script with a ";" inside a string literal has been cut
\* there, after a statement that ran, and the piece has raised
C31_Witness ==
    /\ calls.pc = "done"
    /\ calls.raised
    /\ Len(calls.executed) = 2
    /\ calls.executed[2] = <<83, 69, 76, 69, 67, 84, 32, 39, 97>>
    /\ schema # {}

====
